---- MODULE Spec2Model ----
(***************************************************************************)
(* State-machine model of the task orchestration pipeline of the RAG       *)
(* service: system configuration loading (config_loader.py), the task      *)
(* definition store and registry (task_config.py, task_registry.py), the   *)
(* access policy (access_control.py), retrieval (rag_pipeline.py), the     *)
(* generation connector (connector_dev.py) and the orchestrator _run_task  *)
(* (routes.py).                                                            *)
(*                                                                         *)
(* _run_task is a coroutine: it runs without interruption up to each       *)
(* `await call_llm(...)`.  One action of the model is one such             *)
(* uninterrupted piece of the handler.                                     *)
(*                                                                         *)
(* Spec is the service handling requests.  RegistrySpec is the task        *)
(* registry over a config/tasks directory that is edited while the process *)
(* runs.  UnitSpec calls single operations (check_task_access, from_dict,  *)
(* retrieval, build_llm_prompt) on inputs drawn from bounded sets.         *)
(* RoutedSpec is the service handling the queries of the routed entry      *)
(* point generic_query, which classifies a query and then runs _run_task.  *)
(* RaceSpec is the registry cache under concurrent get_task_config calls,  *)
(* SeedSpec the demo collections under concurrent first accesses.          *)
(* ServiceSpec is the service with all its entry points.                   *)
(***************************************************************************)
EXTENDS Integers, Sequences, FiniteSets, TLC

VARIABLES
    sysFile,    \* content of config/system.yaml on disk (mutable, external)
    sysCache,   \* lru_cache(maxsize=1) of load_system_config: <<>> or <<cfg>>
    taskFiles,  \* config/tasks/<task_id>.yaml on disk: file name -> raw mapping
    tasks,      \* TaskRegistry._tasks: task_id -> TaskConfig
    colls,      \* ChromaDB collections: collection name -> set of document ids
    run,        \* the request being handled by _run_task and what it did
    probe,      \* the last finished call of another operation: what was
                \* called, its arguments and what it gave back
    routed,     \* the request being handled by generic_query, the request
                \* ids the process has minted and those of earlier queries
    getters,    \* the callers of TaskRegistry.get_task_config: where each is
                \* in the call and what it holds
    seeders     \* the callers of ensure_collection_for_task: where each is
                \* in the call and whether it added the documents

vars == <<sysFile, sysCache, taskFiles, tasks, colls, run, probe, routed, getters,
          seeders>>

-----------------------------------------------------------------------------
(* Bounds and program constants                                            *)

\* longest generation-backend reply the model enumerates
MaxReplyLen == 1

\* largest topk a raw task config is enumerated with
MaxTopK == 2

\* longest list of chunks the prompt builder is called with
MaxChunks == 3

\* routes.py:134, retrieve_text_chunks(task_cfg, normalized_query, top_k=3)
TopK == 3

\* task_config.py:17, TextSearchConfig.topk default
DefaultTextTopK == 5

\* task_config.py:19, TextSearchConfig.similarity_threshold default 0.3, in
\* hundredths
DefaultTextThreshold == 30

\* task_config.py:42, TableSearchConfig.topk default
DefaultTableTopK == 5

\* task_config.py:44, TableSearchConfig.similarity_threshold default 0.4, in
\* hundredths
DefaultTableThreshold == 40

Environments == {"dev", "test", "prod"}

TaskTypes == {"demo", "corporate"}

PostprocessingTypes == {"none", "markdown-file", "docx-file", "customscript"}

SourcesModes == {"text", "tables", "texttables"}

\* file names under config/tasks that requests may name; "ghost" never exists
TaskIds == {"demo_hello", "demo_rules", "corp_task", "ghost"}

\* replies of the generation service: strings over a one-letter alphabet
Replies == UNION {[1..n -> {"a"}] : n \in 0..MaxReplyLen}

\* Optional[...] values: None is <<>>, a present value x is <<x>>
None == <<>>

Some(x) == <<x>>

EmptyDict == [k \in {} |-> k]

Max(a, b) == IF a >= b THEN a ELSE b

Min(a, b) == IF a <= b THEN a ELSE b

\* A raw value is the scalar as the YAML file writes it; yaml.safe_load
\* gives a Python str for every scalar here but those of YamlIntegers, which
\* it loads as int.
YamlIntegers == {"7"}

\* isinstance(v, str)
IsStr(v) == v \notin YamlIntegers

\* sorted(): the ids that occur in the model, in the order Python sorts
\* strings
SortedIds == <<"", "corp_task", "demo_hello", "demo_rules", "ghost">>

\* dict.get(key, default)
Get(data, key, default) == IF key \in DOMAIN data THEN data[key] ELSE default

-----------------------------------------------------------------------------
(* config_loader.py                                                        *)

\* load_system_config under lru_cache(maxsize=1): the file is read on the
\* first call only; the value is the cache after the call.
LoadSystemConfig(cache, file) == IF cache # <<>> THEN cache ELSE <<file>>

\* get_environment; the deployments enumerated in SystemConfigs name a valid
\* environment, so its SystemConfigError branch is not taken
GetEnvironment(cfg) == Get(cfg, "environment", "dev")

-----------------------------------------------------------------------------
(* access_control.py                                                       *)

AllowCorporateInDev(cfg) ==
    LET ac == Get(cfg, "accesscontrol", EmptyDict)
    IN  Get(ac, "allow_corporate_in_dev", FALSE)

\* mutant: demo tasks are let through in every environment
CheckTaskAccessDemoEverywhere(task_type, cfg) ==
    LET env == GetEnvironment(cfg) IN
    IF task_type = "demo"
    THEN [allowed |-> TRUE,
          reason |-> <<"demo task in environment=", env, " is allowed">>]
    ELSE IF task_type = "corporate"
    THEN IF env = "prod"
         THEN [allowed |-> TRUE, reason |-> <<"corporate task is allowed in prod">>]
         ELSE IF env = "dev" /\ AllowCorporateInDev(cfg)
         THEN [allowed |-> TRUE,
               reason |-> <<"corporate task allowed in dev for development purposes">>]
         ELSE IF env = "test"
         THEN [allowed |-> TRUE,
               reason |-> <<"corporate task allowed in test for debugging without LLM">>]
         ELSE [allowed |-> FALSE,
               reason |-> <<"corporate tasks are not allowed in environment=", env,
                            " by policy">>]
    ELSE [allowed |-> FALSE, reason |-> <<"Unknown task_type=", task_type>>]

\* mutant: a kind the policy does not know is allowed
CheckTaskAccessUnknownAllowed(task_type, cfg) ==
    LET env == GetEnvironment(cfg) IN
    IF task_type = "demo"
    THEN IF env \in {"dev", "test"}
         THEN [allowed |-> TRUE,
               reason |-> <<"demo task in environment=", env, " is allowed">>]
         ELSE [allowed |-> FALSE,
               reason |-> <<"demo tasks are not allowed in environment=", env,
                            " by policy">>]
    ELSE IF task_type = "corporate"
    THEN IF env = "prod"
         THEN [allowed |-> TRUE, reason |-> <<"corporate task is allowed in prod">>]
         ELSE IF env = "dev" /\ AllowCorporateInDev(cfg)
         THEN [allowed |-> TRUE,
               reason |-> <<"corporate task allowed in dev for development purposes">>]
         ELSE IF env = "test"
         THEN [allowed |-> TRUE,
               reason |-> <<"corporate task allowed in test for debugging without LLM">>]
         ELSE [allowed |-> FALSE,
               reason |-> <<"corporate tasks are not allowed in environment=", env,
                            " by policy">>]
    ELSE [allowed |-> TRUE, reason |-> <<"Unknown task_type=", task_type>>]

\* check_task_access; the reason f-string is kept as its sequence of pieces
CheckTaskAccess(task_type, cfg) ==
    LET env == GetEnvironment(cfg) IN
    IF task_type = "demo"
    THEN IF env \in {"dev", "test"}
         THEN [allowed |-> TRUE,
               reason |-> <<"demo task in environment=", env, " is allowed">>]
         ELSE [allowed |-> FALSE,
               reason |-> <<"demo tasks are not allowed in environment=", env,
                            " by policy">>]
    ELSE IF task_type = "corporate"
    THEN IF env = "prod"
         THEN [allowed |-> TRUE, reason |-> <<"corporate task is allowed in prod">>]
         ELSE IF env = "dev" /\ AllowCorporateInDev(cfg)
         THEN [allowed |-> TRUE,
               reason |-> <<"corporate task allowed in dev for development purposes">>]
         ELSE IF env = "test"
         THEN [allowed |-> TRUE,
               reason |-> <<"corporate task allowed in test for debugging without LLM">>]
         ELSE [allowed |-> FALSE,
               reason |-> <<"corporate tasks are not allowed in environment=", env,
                            " by policy">>]
    ELSE [allowed |-> FALSE, reason |-> <<"Unknown task_type=", task_type>>]

-----------------------------------------------------------------------------
(* task_config.py                                                          *)

ConfigError(msg) == [ok |-> FALSE, error |-> msg]

\* the retrieval modes the comments of TextSearchConfig.mode and
\* TableSearchConfig.mode list
SearchModes == {"topk", "allwiththreshold", "hybrid"}

\* mutant: the topk read from the mapping is raised by one
TextSearchFromDictTopKPlusOne(data) ==
    [enabled |-> Get(data, "enabled", TRUE),
     mode |-> Get(data, "mode", "topk"),
     topk |-> Get(data, "topk", DefaultTextTopK) + 1,
     similarity_threshold |-> Get(data, "similarity_threshold", DefaultTextThreshold)]

\* TextSearchConfig.from_dict, for the fields retrieval is configured by;
\* a similarity threshold is kept in hundredths
TextSearchFromDict(data) ==
    [enabled |-> Get(data, "enabled", TRUE),
     mode |-> Get(data, "mode", "topk"),
     topk |-> Get(data, "topk", DefaultTextTopK),
     similarity_threshold |-> Get(data, "similarity_threshold", DefaultTextThreshold)]

\* TableSearchConfig.from_dict, likewise
TableSearchFromDict(data) ==
    [enabled |-> Get(data, "enabled", FALSE),
     mode |-> Get(data, "mode", "topk"),
     topk |-> Get(data, "topk", DefaultTableTopK),
     similarity_threshold |-> Get(data, "similarity_threshold", DefaultTableThreshold)]

\* data.get(key) followed by `if ... is not None`: the section, if present
Section(data, key) == IF key \in DOMAIN data THEN Some(data[key]) ELSE None

\* context_cfg = data.get("context") or {}; context_cfg.get("format", ...)
ContextFormat(data) ==
    Get(Get(data, "context", EmptyDict), "format", "structured_json")

\* research_cfg = data.get("research") or {}; research_cfg.get("enabled", False)
ResearchEnabled(data) == Get(Get(data, "research", EmptyDict), "enabled", FALSE)

\* TaskConfig.from_dict, for the fields the engine reads and one field of
\* each nested section.  The booleans and integers enumerated here are
\* already of the type that bool() and int() coerce to.
FromDict(data) ==
    IF "task_id" \notin DOMAIN data
    THEN ConfigError("Missing required field in TaskConfig: task_id")
    ELSE IF Get(data, "task_type", "demo") \notin {"demo", "corporate"}
    THEN ConfigError("Invalid task_type in TaskConfig")
    ELSE IF Get(data, "sources_mode", "text") \notin SourcesModes
    THEN ConfigError("Invalid sources_mode in TaskConfig")
    ELSE IF Get(data, "postprocessing_type", "none") \notin PostprocessingTypes
    THEN ConfigError("Invalid postprocessing_type in TaskConfig")
    ELSE LET ts_data == Section(data, "text_search")
             tbl_data == Section(data, "table_search")
         IN
         [ok |-> TRUE,
          cfg |-> [task_id |-> data["task_id"],
                   name |-> Get(data, "name", data["task_id"]),
                   description |-> Get(data, "description", ""),
                   task_type |-> Get(data, "task_type", "demo"),
                   technical_prompt |-> Get(data, "technical_prompt", ""),
                   sources_mode |-> Get(data, "sources_mode", "text"),
                   enable_research |-> Get(data, "enable_research", FALSE),
                   postprocessing_type |-> Get(data, "postprocessing_type", "none"),
                   text_search |-> IF ts_data # None
                                   THEN Some(TextSearchFromDict(ts_data[1]))
                                   ELSE None,
                   table_search |-> IF tbl_data # None
                                    THEN Some(TableSearchFromDict(tbl_data[1]))
                                    ELSE None,
                   context_format |-> ContextFormat(data),
                   research_enabled |-> ResearchEnabled(data)]]

\* the raw mapping of a definition, in the layout from_dict reads: top-level
\* keys, and the nested sections context, research, text_search and
\* table_search; an absent sub-config has no key
Serialize(cfg) ==
    [task_id |-> cfg.task_id,
     name |-> cfg.name,
     description |-> cfg.description,
     task_type |-> cfg.task_type,
     technical_prompt |-> cfg.technical_prompt,
     sources_mode |-> cfg.sources_mode,
     enable_research |-> cfg.enable_research,
     postprocessing_type |-> cfg.postprocessing_type,
     context |-> [format |-> cfg.context_format],
     research |-> [enabled |-> cfg.research_enabled]]
    @@ (IF cfg.text_search # None
        THEN "text_search" :> cfg.text_search[1] ELSE EmptyDict)
    @@ (IF cfg.table_search # None
        THEN "table_search" :> cfg.table_search[1] ELSE EmptyDict)

\* load_task_config: config/tasks/<task_id>.yaml
LoadTaskConfig(task_id, files) ==
    IF task_id \notin DOMAIN files
    THEN ConfigError("Task config not found")
    ELSE FromDict(files[task_id])

-----------------------------------------------------------------------------
(* task_registry.py                                                        *)

\* mutant: the cache is not consulted; every call loads and stores again
GetTaskConfigAlwaysLoads(task_id, cache, files) ==
    LET loaded == LoadTaskConfig(task_id, files) IN
    IF loaded.ok
    THEN [ok |-> TRUE, cfg |-> loaded.cfg,
          tasks |-> (task_id :> loaded.cfg) @@ cache]
    ELSE [ok |-> FALSE, error |-> loaded.error, tasks |-> cache]

\* TaskRegistry.get_task_config: the result and the cache after the call
GetTaskConfig(task_id, cache, files) ==
    IF task_id \in DOMAIN cache
    THEN [ok |-> TRUE, cfg |-> cache[task_id], tasks |-> cache]
    ELSE LET loaded == LoadTaskConfig(task_id, files) IN
         IF loaded.ok
         THEN [ok |-> TRUE, cfg |-> loaded.cfg,
               tasks |-> cache @@ (task_id :> loaded.cfg)]
         ELSE [ok |-> FALSE, error |-> loaded.error, tasks |-> cache]

\* TaskRegistry._scan_tasks_dir: the task_id written inside each *.yaml file
\* of config/tasks, when it is a str; sorted, without duplicates
ScanTasksDir(files) ==
    LET found == {files[f]["task_id"] :
                     f \in {g \in DOMAIN files :
                               /\ "task_id" \in DOMAIN files[g]
                               /\ IsStr(files[g]["task_id"])}}
    IN  SelectSeq(SortedIds, LAMBDA tid : tid \in found)

\* RegisteredTask(...) of a definition
RegisteredTask(cfg) ==
    [task_id |-> cfg.task_id, task_type |-> cfg.task_type, name |-> cfg.name,
     description |-> cfg.description]

\* the loop of list_registered_tasks over the scanned ids: get_task_config
\* for each, `continue` on TaskRegistryError
RECURSIVE ListLoop(_, _, _, _)
ListLoop(ids, result, cache, files) ==
    IF ids = <<>> THEN [result |-> result, tasks |-> cache]
    ELSE LET lookup == GetTaskConfig(Head(ids), cache, files) IN
         IF lookup.ok
         THEN ListLoop(Tail(ids), Append(result, RegisteredTask(lookup.cfg)),
                       lookup.tasks, files)
         ELSE ListLoop(Tail(ids), result, lookup.tasks, files)

\* TaskRegistry.list_registered_tasks: the listing and the cache after it
ListRegisteredTasks(cache, files) ==
    ListLoop(ScanTasksDir(files), <<>>, cache, files)

-----------------------------------------------------------------------------
(* chroma_client.py and rag_pipeline.py                                    *)

\* mutant: demo_rules is seeded with its first document only
SeedDocsFirstOnly(task_id) ==
    IF task_id \in {"demo_hello", "demo_rules"} THEN {1} ELSE {}

\* the documents ensure_collection_for_task seeds, as their 1-based numbers
\* (demo_hello_doc1; demo_rules_doc1 .. demo_rules_doc4)
SeedDocs(task_id) ==
    IF task_id = "demo_hello" THEN {1}
    ELSE IF task_id = "demo_rules" THEN 1..4
    ELSE {}

CollectionName(task_id) ==
    IF task_id = "demo_hello" THEN "demo_hello_texts" ELSE "demo_rules_texts"

HasCollection(task_id) == task_id \in {"demo_hello", "demo_rules"}

\* ensure_collection_for_task: get_or_create_collection, then seed the
\* collection when coll.count() is 0.  The value is the collections after.
EnsureCollectionForTask(task_id, cs) ==
    IF ~HasCollection(task_id) THEN cs
    ELSE LET name == CollectionName(task_id)
             docs == IF name \in DOMAIN cs THEN cs[name] ELSE {}
         IN  IF Cardinality(docs) > 0 THEN cs
             ELSE (name :> SeedDocs(task_id)) @@ cs

\* the documents of a collection in the order the vector index ranks them;
\* the ranking is abstracted to the order of the document numbers
RECURSIVE Ranked(_)
Ranked(docs) ==
    IF docs = {} THEN <<>>
    ELSE LET first == CHOOSE d \in docs : \A e \in docs : d <= e
         IN  <<first>> \o Ranked(docs \ {first})

\* coll.query(n_results=n): the n nearest documents, fewer if there are fewer
NearestDocs(docs, n) == SubSeq(Ranked(docs), 1, Min(n, Cardinality(docs)))

\* retrieve_text_chunks.  backend is what the vector store does with
\* coll.query: "ok" or "fail" (it raises).  A chunk is kept as its source
\* document number.
RetrieveTextChunks(task_cfg, top_k, cs, backend) ==
    LET after == EnsureCollectionForTask(task_cfg.task_id, cs) IN
    IF ~HasCollection(task_cfg.task_id)
    THEN [ok |-> TRUE, chunks |-> <<>>, colls |-> after]
    ELSE IF backend = "fail"
    THEN [ok |-> FALSE, chunks |-> <<>>, colls |-> after]
    ELSE [ok |-> TRUE,
          chunks |-> NearestDocs(after[CollectionName(task_cfg.task_id)], top_k),
          colls |-> after]

\* the score of a chunk, in hundredths: float(dist) of the document, which
\* grows by a quarter from one rank to the next
Score(d) == 25 * (d - 1)

\* the task's base top-k: text_search.topk, the TextSearchConfig default when
\* the task has no text_search section
BaseTopK(task_cfg) ==
    IF task_cfg.text_search # None THEN task_cfg.text_search[1].topk
    ELSE DefaultTextTopK

\* mutant: the research pass asks for twice the base and no more
ResearchTopKDouble(base) == 2 * base

\* candidate count of the research pass
ResearchTopK(base) == Max(2 * base, base + 1)

\* retrieve_text_chunks_for_research(task_cfg, query)
RetrieveTextChunksForResearch(task_cfg, cs, backend) ==
    RetrieveTextChunks(task_cfg, ResearchTopK(BaseTopK(task_cfg)), cs, backend)

\* mutant: no marker stands in for an empty list of context lines
ContextBlockNoMarker(context_lines) == context_lines

\* one line of the prompt: what it is, and for an enumerated context line
\* its number, the source document and the score it shows
PromptLine(kind, text) == [kind |-> kind, text |-> text, i |-> 0, source |-> 0, score |-> 0]

\* f"{i}. [source={ch.source_id}, score={ch.score:.4f}] {ch.text}" for
\* enumerate(chunks, start=1)
ContextLines(chunks) ==
    [i \in 1..Len(chunks) |->
        [kind |-> "context", text |-> "", i |-> i, source |-> chunks[i],
         score |-> Score(chunks[i])]]

\* context_block: the joined lines, or the marker when there is none
ContextBlock(context_lines) ==
    IF context_lines # <<>> THEN context_lines
    ELSE <<PromptLine("marker", "No contexts were found for the query.")>>

\* build_llm_prompt: the prompt as the sequence of its lines; the Russian
\* literals are given in English
BuildLLMPrompt(task_cfg, query, chunks) ==
    LET base_prompt ==
            IF task_cfg.technical_prompt # "" THEN task_cfg.technical_prompt
            ELSE "You are an assistant on the internal regulations and services of the company. Answer briefly and to the point."
    IN  <<PromptLine("base_prompt", base_prompt),
          PromptLine("blank", ""),
          PromptLine("header", "Below is the context found for the user's query:")>>
        \o ContextBlock(ContextLines(chunks))
        \o <<PromptLine("blank", ""),
             PromptLine("query_header", "The user's query:"),
             PromptLine("query", query),
             PromptLine("blank", ""),
             PromptLine("closing", "Give a clear and careful answer in Russian. If the context is not enough, say so and answer in general terms.")>>

-----------------------------------------------------------------------------
(* connector_dev.py                                                        *)

\* what the chat service does with one POST: it answers with a status and a
\* JSON body, or the transport fails (connection refused, timeout)
HttpOutcomes ==
    {[kind |-> "response", status |-> 200, body |-> [reply |-> r]] : r \in Replies}
    \cup {[kind |-> "response", status |-> 200, body |-> EmptyDict],
          [kind |-> "response", status |-> 500, body |-> EmptyDict],
          [kind |-> "no_response"]}

\* call_llm: client.post raises on a transport failure (an httpx exception,
\* not an LLMError); a status other than 200 raises LLMError; otherwise the
\* reply is data.get("reply", "")
CallLLM(http) ==
    IF http.kind = "no_response"
    THEN [kind |-> "raised", exc |-> "httpx.TransportError", msg |-> <<>>]
    ELSE IF http.status # 200
    THEN [kind |-> "raised", exc |-> "LLMError",
          msg |-> <<"ollama_chat_4b error ", http.status>>]
    ELSE [kind |-> "returned", content |-> Get(http.body, "reply", <<>>)]

-----------------------------------------------------------------------------
(* routes.py: _run_task                                                    *)

\* the locals of one _run_task call, its pending await, its result, the
\* events it logged and the calls it made to its collaborators.
\* check_profanity and normalize_query only feed event payloads and the
\* prompt text; the text of the query is not kept.
NewRun(task_id, task_type, debug, env) ==
    [pc |-> "running", task_id |-> task_id, task_type |-> task_type,
     debug |-> debug, env |-> env, task_cfg |-> None, decision |-> None,
     chunks |-> <<>>, answers |-> <<>>, meta |-> EmptyDict, log |-> <<>>,
     result |-> None, llm_calls |-> <<>>, retrievals |-> <<>>,
     exports |-> <<>>]

IdleRun == [NewRun("ghost", "demo", FALSE, "dev") EXCEPT !.pc = "idle"]

\* log_event(event_type, ..., payload): appends one event to the event sink
LogEvent(r, event_type, payload) ==
    [r EXCEPT !.log = Append(@, [event_type |-> event_type, payload |-> payload])]

\* raise HTTPException(status_code, detail)
RaiseHTTP(r, status, detail) ==
    [r EXCEPT !.pc = "done",
              !.result = Some([kind |-> "http_error", status |-> status,
                               detail |-> detail])]

\* an exception no handler of _run_task catches leaves the coroutine
\* (the framework answers 500)
Uncaught(r, exc) ==
    [r EXCEPT !.pc = "done", !.result = Some([kind |-> "uncaught", exc |-> exc])]

\* `meta or None`
MetaOrNone(meta) == IF DOMAIN meta = {} THEN None ELSE Some(meta)

\* return TaskQueryResponse(ok=..., answer=..., error=..., meta=...)
Return(r, ok, answer, error, meta) ==
    [r EXCEPT !.pc = "done",
              !.result = Some([kind |-> "response", ok |-> ok, answer |-> answer,
                               error |-> error, meta |-> meta])]

\* the two fixed answers of the test environment (routes.py:173, 328)
TestModeDemoAnswer == <<"TEST MODE: LLM not called, only the retrieved chunks are returned">>

TestModeCorporateAnswer == <<"TEST MODE: LLM not called, corporate task not implemented yet">>

\* save_markdown / save_docx: (abs_path, filename) of the written file
SaveFile(format, content, task_cfg) ==
    <<<<"exports", task_cfg.task_id, format>>, <<task_cfg.task_id, format>>>>

\* mutant: the docx-file branch is missing
PostprocessMarkdownOnly(r, task_cfg, answer) ==
    IF task_cfg.postprocessing_type = "markdown-file"
    THEN LET saved == SaveFile("markdown-file", answer, task_cfg)
         IN  [r EXCEPT !.exports = Append(@, [format |-> "markdown-file",
                                              content |-> answer]),
                       !.meta = ("postprocessing" :>
                                     [type |-> "markdown-file", path |-> saved[1],
                                      filename |-> saved[2]]) @@ @]
    ELSE r

\* routes.py:270-284 and 347-360: export by postprocessing_type
Postprocess(r, task_cfg, answer) ==
    IF task_cfg.postprocessing_type \in {"markdown-file", "docx-file"}
    THEN LET format == task_cfg.postprocessing_type
             saved == SaveFile(format, answer, task_cfg)
         IN  [r EXCEPT !.exports = Append(@, [format |-> format, content |-> answer]),
                       !.meta = ("postprocessing" :>
                                     [type |-> format, path |-> saved[1],
                                      filename |-> saved[2]]) @@ @]
    ELSE r

\* mutant: the successful response is returned without a final event
FinishOkNoFinalEvent(r, answer) ==
    Return(r, TRUE, Some(answer), None, MetaOrNone(r.meta))

\* routes.py:286-297 and 372-382: the final event and the successful response
FinishOk(r, answer) ==
    LET r1 == LogEvent(r, "final", [ok |-> TRUE, answer_length |-> Len(answer)])
    IN  Return(r1, TRUE, Some(answer), None, MetaOrNone(r1.meta))

\* routes.py:298-313 and 383-398: except LLMError
OnLLMError(r, msg) ==
    LET r1 == LogEvent(r, "llm_error", [error |-> msg])
        r2 == LogEvent(r1, "final", [ok |-> FALSE, error |-> msg])
    IN  Return(r2, FALSE, None, Some(msg), MetaOrNone(r2.meta))

\* what a call_llm that raised does to the run: LLMError is caught by the
\* except clause, any other exception is not
OnLLMRaise(r, call) ==
    IF call.exc = "LLMError" THEN OnLLMError(r, call.msg) ELSE Uncaught(r, call.exc)

\* mutant: the asserted kind is not compared with the definition's
KindMismatchIgnored(task_cfg, task_type) == FALSE

\* routes.py:104
KindMismatch(task_cfg, task_type) == task_cfg.task_type # task_type

\* mutant: a deny does not stop the run
AccessDeniedIgnored(decision) == FALSE

\* routes.py:119
AccessDenied(decision) == ~decision.allowed

\* routes.py:149 and 318
TestMode(env) == env = "test"

\* routes.py:132-192: the demo path up to the first await.
\* The value is the run and the collections after.
DemoStart(r, task_cfg, cs, backend) ==
    LET res == RetrieveTextChunks(task_cfg, TopK, cs, backend)
        r1 == [r EXCEPT !.retrievals = Append(@, [top_k |-> TopK, ok |-> res.ok,
                                                  returned |-> Len(res.chunks)])]
    IN  IF ~res.ok
        THEN [run |-> Uncaught(r1, "retrieval error"), colls |-> res.colls]
        ELSE LET r2 == LogEvent([r1 EXCEPT !.chunks = res.chunks], "search",
                                [chunks_found |-> Len(res.chunks)])
                 withChunks == [r2 EXCEPT !.meta = ("retrieved_chunks" :> res.chunks) @@ @]
             IN  IF TestMode(r.env)
                 THEN LET r3 == LogEvent(withChunks, "final",
                                         [ok |-> TRUE, answer_length |-> 0,
                                          mode |-> "test_no_llm"])
                      IN  [run |-> Return(r3, TRUE, Some(TestModeDemoAnswer), None,
                                          Some(r3.meta)),
                           colls |-> res.colls]
                 ELSE LET r3 == IF r.debug THEN withChunks ELSE r2
                      IN  [run |-> [r3 EXCEPT !.pc = "await_llm1",
                                              !.llm_calls = Append(@, 1)],
                           colls |-> res.colls]

\* routes.py:316-343: the corporate path up to its await
CorporateStart(r) ==
    IF TestMode(r.env)
    THEN LET r1 == LogEvent(r, "final", [ok |-> TRUE, answer_length |-> 0,
                                         mode |-> "test_no_llm"])
         IN  Return(r1, TRUE, Some(TestModeCorporateAnswer), None, MetaOrNone(r1.meta))
    ELSE [r EXCEPT !.pc = "await_llm_corp", !.llm_calls = Append(@, 1)]

\* routes.py:68-130: mint the request, log the query, Resolve and Authorize,
\* then the path of the task type.  lookup is get_task_config's outcome,
\* syscfg the loaded system configuration.
RunTaskStart(task_id, task_type, debug, syscfg, lookup, cs, backend) ==
    LET r0 == LogEvent(NewRun(task_id, task_type, debug, GetEnvironment(syscfg)),
                       "query", [task_id |-> task_id])
    IN  IF ~lookup.ok
        THEN [run |-> RaiseHTTP(LogEvent(r0, "query_error", [error |-> lookup.error]),
                                404, lookup.error),
              colls |-> cs]
        ELSE IF KindMismatch(lookup.cfg, task_type)
        THEN [run |-> RaiseHTTP(LogEvent([r0 EXCEPT !.task_cfg = Some(lookup.cfg)],
                                         "query_error", [error |-> "task_type mismatch"]),
                                400, "task_type mismatch"),
              colls |-> cs]
        ELSE LET decision == CheckTaskAccess(lookup.cfg.task_type, syscfg)
                 r1 == [r0 EXCEPT !.task_cfg = Some(lookup.cfg),
                                  !.decision = Some(decision)]
             IN  IF AccessDenied(decision)
                 THEN [run |-> RaiseHTTP(LogEvent(r1, "access_denied",
                                                  [reason |-> decision.reason]),
                                         403, decision.reason),
                       colls |-> cs]
                 ELSE IF lookup.cfg.task_type = "demo"
                 THEN DemoStart(r1, lookup.cfg, cs, backend)
                 ELSE IF lookup.cfg.task_type = "corporate"
                 THEN [run |-> CorporateStart(r1), colls |-> cs]
                 ELSE [run |-> RaiseHTTP(r1, 400, "Unsupported task_type"), colls |-> cs]

\* mutant: the first attempt's answer is kept
ResearchAnswerKeepsFirst(answer, answer2) == answer

\* routes.py:268: the answer that goes on after the research pass
ResearchAnswer(answer, answer2) == answer2

\* routes.py:270-297 of the demo path: Postprocess and Finalize
DemoFinish(r, answer) == FinishOk(Postprocess(r, r.task_cfg[1], answer), answer)

\* routes.py:196-251: the first call_llm has ended; up to the second await
\* or the end of the run
DemoAfterLLM1(r, call, cs, backend) ==
    IF call.kind = "raised"
    THEN [run |-> OnLLMRaise(r, call), colls |-> cs]
    ELSE LET r1 == LogEvent([r EXCEPT !.answers = Append(@, call.content)], "llm",
                            [ok |-> TRUE, attempt |-> 1])
         IN  IF r.task_cfg[1].enable_research
             THEN LET res == RetrieveTextChunksForResearch(r.task_cfg[1], cs, backend)
                      r2 == [r1 EXCEPT !.retrievals =
                                           Append(@, [top_k |-> ResearchTopK(BaseTopK(r.task_cfg[1])),
                                                      ok |-> res.ok,
                                                      returned |-> Len(res.chunks)])]
                  IN  IF ~res.ok
                      THEN [run |-> Uncaught(r2, "retrieval error"), colls |-> res.colls]
                      ELSE LET r3 == LogEvent(r2, "research_search",
                                              [chunks_found |-> Len(res.chunks)])
                               r4 == IF r.debug
                                     THEN [r3 EXCEPT !.meta =
                                              ("research_chunks" :> res.chunks) @@ @]
                                     ELSE r3
                           IN  [run |-> [r4 EXCEPT !.pc = "await_llm2",
                                                   !.llm_calls = Append(@, 2)],
                                colls |-> res.colls]
             ELSE [run |-> DemoFinish(r1, call.content), colls |-> cs]

\* routes.py:251-297: the second call_llm has ended
DemoAfterLLM2(r, call) ==
    IF call.kind = "raised"
    THEN OnLLMRaise(r, call)
    ELSE LET r1 == LogEvent([r EXCEPT !.answers = Append(@, call.content)], "llm",
                            [ok |-> TRUE, attempt |-> 2])
         IN  DemoFinish(r1, ResearchAnswer(r.answers[1], call.content))

\* mutant: the llm event of the corporate path is logged after the final event
CorporateAfterLLMLateEvent(r, call) ==
    IF call.kind = "raised"
    THEN OnLLMRaise(r, call)
    ELSE LET r1 == Postprocess([r EXCEPT !.answers = Append(@, call.content)],
                               r.task_cfg[1], call.content)
             r2 == FinishOk(r1, call.content)
         IN  LogEvent(r2, "llm", [ok |-> TRUE])

\* routes.py:343-398: the corporate call_llm has ended; the export comes
\* before the llm event here
CorporateAfterLLM(r, call) ==
    IF call.kind = "raised"
    THEN OnLLMRaise(r, call)
    ELSE LET r1 == Postprocess([r EXCEPT !.answers = Append(@, call.content)],
                               r.task_cfg[1], call.content)
             r2 == LogEvent(r1, "llm", [ok |-> TRUE])
         IN  FinishOk(r2, call.content)

-----------------------------------------------------------------------------
(* routes.py: list_tasks and get_task                                      *)

\* TaskInfo(task_id=..., task_type=..., name=..., description=...)
TaskInfo(t) ==
    [task_id |-> t.task_id, task_type |-> t.task_type, name |-> t.name,
     description |-> t.description]

\* the TaskInfo of each element of a listing
RECURSIVE TaskInfos(_)
TaskInfos(registered) ==
    IF registered = <<>> THEN <<>>
    ELSE <<TaskInfo(Head(registered))>> \o TaskInfos(Tail(registered))

\* mutant: the listing does not look at the environment
ListTasksShowsAll(env, registered) == TaskInfos(registered)

\* routes.py:404-421: list_tasks leaves the demo tasks out in prod
ListTasks(env, registered) ==
    LET Visible(t) == ~(env = "prod" /\ t.task_type = "demo")
    IN  TaskInfos(SelectSeq(registered, Visible))

\* routes.py:425-443: get_task answers 404 for a task the registry cannot
\* load and for a demo task in prod
GetTask(env, lookup) ==
    IF ~lookup.ok
    THEN [kind |-> "http_error", status |-> 404, detail |-> lookup.error]
    ELSE IF env = "prod" /\ lookup.cfg.task_type = "demo"
    THEN [kind |-> "http_error", status |-> 404, detail |-> "Task not found"]
    ELSE [kind |-> "response", info |-> TaskInfo(lookup.cfg)]

-----------------------------------------------------------------------------
(* routes.py: generic_query                                                *)

\* the most queries the routed entry point serves in one behaviour
MaxRequests == 2

\* str(uuid.uuid4()): an identifier no earlier call has returned; minted is
\* the number of identifiers the process has minted so far
Uuid4(minted) == minted + 1

\* the task the classifier falls back to
DefaultTask == [task_id |-> "demo_hello", task_type |-> "demo"]

\* what the generation backend answers to the classifier's instruction: a
\* text that parses as JSON into obj, or one that does not parse
ClassifierReplies ==
    {[parses |-> FALSE, obj |-> EmptyDict]}
    \cup {[parses |-> TRUE, obj |-> o] :
             o \in {EmptyDict, "task_id" :> "demo_hello",
                    ("task_id" :> "7") @@ ("task_type" :> "demo")}
                   \cup {("task_id" :> i) @@ ("task_type" :> k) :
                            i \in {"", "demo_hello", "corp_task", "ghost"},
                            k \in TaskTypes}}

\* how the classifier's call of the generation backend ends
ClassifierCalls ==
    {[kind |-> "raised", msg |-> <<"backend unreachable">>]}
    \cup {[kind |-> "returned", content |-> t] : t \in ClassifierReplies}

\* classify_query: a transport failure of the backend gives ok=false with
\* the backend's error and no task; a reply that does not parse, or that
\* lacks a field or has a non-string one, gives the default task
ClassifyQuery(call) ==
    IF call.kind = "raised"
    THEN [ok |-> FALSE, task_id |-> None, task_type |-> None,
          confidence |-> None, error |-> Some(call.msg)]
    ELSE LET o == call.content.obj
             valid == IF call.content.parses
                         /\ {"task_id", "task_type"} \subseteq DOMAIN o
                      THEN IsStr(o["task_id"]) /\ IsStr(o["task_type"])
                      ELSE FALSE
         IN  IF valid
             THEN [ok |-> TRUE, task_id |-> Some(o["task_id"]),
                   task_type |-> Some(o["task_type"]),
                   confidence |-> Some("model"), error |-> None]
             ELSE [ok |-> TRUE, task_id |-> Some(DefaultTask.task_id),
                   task_type |-> Some(DefaultTask.task_type),
                   confidence |-> Some("fallback"), error |-> None]

\* the events classify_query logs under the request_id it is given
ClassifyEvents(request_id) ==
    <<[event_type |-> "classification", request_id |-> request_id]>>

\* the locals of one generic_query call, how the classifier's backend call
\* ended and the response, with the number of request ids minted so far, the
\* ids earlier queries logged under and the number of queries served
NewGeneric(g, request_id, env, debug) ==
    [pc |-> "await_classify", request_id |-> request_id, env |-> env,
     debug |-> debug, call |-> None, classification |-> None, log |-> <<>>,
     run_request_id |-> 0, response |-> None,
     minted |-> g.minted + 1, used |-> g.used, served |-> g.served]

IdleGeneric ==
    [pc |-> "idle", request_id |-> 0, env |-> "dev", debug |-> FALSE,
     call |-> None, classification |-> None, log |-> <<>>, run_request_id |-> 0,
     response |-> None, minted |-> 0, used |-> {}, served |-> 0]

\* return GenericQueryResponse(...); a field that is not given is None
GenericQueryResponse(g, ok, answer, routed_task_id, routed_task_type, error) ==
    [g EXCEPT !.pc = "done",
              !.response = Some([kind |-> "response", ok |-> ok, answer |-> answer,
                                 routed_task_id |-> routed_task_id,
                                 routed_task_type |-> routed_task_type,
                                 error |-> error,
                                 classification_confidence |->
                                     g.classification[1].confidence])]

\* routes.py:467: not classification.ok or not classification.task_id or
\* not classification.task_type (None and "" are falsy)
ClassificationFailed(classification) ==
    \/ ~classification.ok
    \/ classification.task_id \in {None, Some("")}
    \/ classification.task_type \in {None, Some("")}

\* mutant: the classifier's error message is dropped
ClassificationErrorAlwaysGeneric(classification) == <<"classification_failed">>

\* routes.py:470: classification.error or "classification_failed"
ClassificationError(classification) ==
    IF classification.error \in {None, Some(<<>>)}
    THEN <<"classification_failed">>
    ELSE classification.error[1]

\* mutant: generic_query has no gate of its own for demo tasks in prod
DemoInProdNever(env, classification) == FALSE

\* routes.py:474: env == "prod" and classification.task_type == "demo"
DemoInProd(env, classification) ==
    env = "prod" /\ classification.task_type = Some("demo")

\* routes.py:494-508: `await _run_task(...)` has ended.  Its response is
\* wrapped with the routing fields; an exception it raised is not caught and
\* leaves generic_query
GenericReturn(g, r) ==
    LET res == r.result[1] IN
    IF res.kind = "response"
    THEN GenericQueryResponse(g, res.ok, res.answer, g.classification[1].task_id,
                              g.classification[1].task_type, res.error)
    ELSE [g EXCEPT !.pc = "done", !.response = Some(res)]

\* generic_query after a step of the _run_task it awaits
AfterRunStep(g, r) ==
    IF g.pc = "await_task" /\ r.pc = "done" THEN GenericReturn(g, r) ELSE g

-----------------------------------------------------------------------------
(* Concurrent callers of TaskRegistry.get_task_config                      *)

\* the most callers that are inside get_task_config at the same time
MaxCallers == 3

Callers == 1..MaxCallers

\* a caller outside get_task_config
IdleGetter == [pc |-> "idle", task_id |-> "ghost", cfg |-> None, out |-> None]

\* a caller outside ensure_collection_for_task
IdleSeeder == [pc |-> "idle", task_id |-> "ghost", added |-> FALSE]

-----------------------------------------------------------------------------
(* The state machine                                                       *)

SystemConfigs ==
    {[environment |-> e, accesscontrol |-> [allow_corporate_in_dev |-> f]] :
        e \in Environments, f \in BOOLEAN}

RawTask(task_id, task_type, research, postprocessing) ==
    [task_id |-> task_id, task_type |-> task_type, enable_research |-> research,
     postprocessing_type |-> postprocessing]

\* no other operation has been called yet
NoCall == [op |-> "none", args |-> <<>>, out |-> <<>>]

\* The process has just started: nothing is cached, no collection exists.
\* The deployment's system.yaml and task files are any of the enumerated ones.
Init ==
    /\ sysFile \in SystemConfigs
    /\ sysCache = <<>>
    /\ \E research \in BOOLEAN, postprocessing \in PostprocessingTypes :
           taskFiles = ("demo_hello" :> RawTask("demo_hello", "demo", research, postprocessing))
                    @@ ("demo_rules" :> RawTask("demo_rules", "demo", ~research, "none"))
                    @@ ("corp_task" :> RawTask("corp_task", "corporate", research, postprocessing))
    /\ tasks = EmptyDict
    /\ colls = EmptyDict
    /\ run = IdleRun
    /\ probe = NoCall
    /\ routed = IdleGeneric
    /\ getters = [c \in Callers |-> IdleGetter]
    /\ seeders = [c \in Callers |-> IdleSeeder]

\* system.yaml is edited while the process runs
EditSystemConfig(cfg) ==
    /\ sysFile # cfg
    /\ sysFile' = cfg
    /\ UNCHANGED <<sysCache, taskFiles, tasks, colls, run, probe, routed, getters, seeders>>

\* POST /api/v1/task/query: task_query calls _run_task, which runs up to its
\* first await or to its end
TaskQuery(task_id, task_type, debug, backend) ==
    /\ run.pc = "idle"
    /\ LET cache == LoadSystemConfig(sysCache, sysFile)
           lookup == GetTaskConfig(task_id, tasks, taskFiles)
           step == RunTaskStart(task_id, task_type, debug, cache[1], lookup,
                                colls, backend)
       IN  /\ sysCache' = cache
           /\ tasks' = lookup.tasks
           /\ run' = step.run
           /\ colls' = step.colls
    /\ UNCHANGED <<sysFile, taskFiles, probe, routed, getters, seeders>>

\* the first call_llm of a demo run ends; when _run_task returns or raises
\* into generic_query, generic_query goes on in the same step
DemoLLM1Ends(http, backend) ==
    /\ run.pc = "await_llm1"
    /\ LET step == DemoAfterLLM1(run, CallLLM(http), colls, backend)
       IN  /\ run' = step.run
           /\ colls' = step.colls
           /\ routed' = AfterRunStep(routed, step.run)
    /\ UNCHANGED <<sysFile, sysCache, taskFiles, tasks, probe, getters, seeders>>

\* the second call_llm of a demo run ends
DemoLLM2Ends(http) ==
    /\ run.pc = "await_llm2"
    /\ run' = DemoAfterLLM2(run, CallLLM(http))
    /\ routed' = AfterRunStep(routed, DemoAfterLLM2(run, CallLLM(http)))
    /\ UNCHANGED <<sysFile, sysCache, taskFiles, tasks, colls, probe, getters, seeders>>

\* the call_llm of a corporate run ends
CorporateLLMEnds(http) ==
    /\ run.pc = "await_llm_corp"
    /\ run' = CorporateAfterLLM(run, CallLLM(http))
    /\ routed' = AfterRunStep(routed, CorporateAfterLLM(run, CallLLM(http)))
    /\ UNCHANGED <<sysFile, sysCache, taskFiles, tasks, colls, probe, getters, seeders>>

\* the framework has sent the response of the finished run of task_query
\* (the response object, or the error response of a raised exception); the
\* coroutine is gone
ResponseSent ==
    /\ run.pc = "done"
    /\ routed.pc = "idle"
    /\ run' = IdleRun
    /\ UNCHANGED <<sysFile, sysCache, taskFiles, tasks, colls, probe, routed, getters, seeders>>

Next ==
    \/ \E cfg \in SystemConfigs : EditSystemConfig(cfg)
    \/ \E task_id \in TaskIds, task_type \in TaskTypes, debug \in BOOLEAN,
          backend \in {"ok", "fail"} :
           TaskQuery(task_id, task_type, debug, backend)
    \/ \E http \in HttpOutcomes, backend \in {"ok", "fail"} : DemoLLM1Ends(http, backend)
    \/ \E http \in HttpOutcomes : DemoLLM2Ends(http)
    \/ \E http \in HttpOutcomes : CorporateLLMEnds(http)
    \/ ResponseSent

Spec == Init /\ [][Next]_vars

-----------------------------------------------------------------------------
(* Vocabulary of the properties                                            *)

Started == run.pc # "idle"

Done == run.pc = "done"

Result == run.result[1]

TaskCfg == run.task_cfg[1]

Decision == run.decision[1]

Resolved == Started /\ run.task_cfg # None

Authorized == Started /\ run.decision # None /\ Decision.allowed

EventTypes == [i \in 1..Len(run.log) |-> run.log[i].event_type]

EventsOfType(t) == {i \in 1..Len(run.log) : run.log[i].event_type = t}

\* nothing was asked of the retrieval backend, the generation backend or the
\* exporter
NoCollaboratorCalled ==
    run.retrievals = <<>> /\ run.llm_calls = <<>> /\ run.exports = <<>>

\* the policy table of the access policy engine
PolicyAllows(task_type, env, allowCorporateInDev) ==
    IF task_type = "demo" THEN env \in {"dev", "test"}
    ELSE IF env = "dev" THEN allowCorporateInDev
    ELSE env \in {"test", "prod"}

-----------------------------------------------------------------------------
(* Access policy                                                           *)

\* C1: the access decision of a request is allowed exactly as the policy
\* table says for the task's kind, the environment and allowCorporateInDev
\* that the policy engine read.
C1_PolicyTable ==
    (Started /\ run.decision # None) =>
        (Decision.allowed <=>
            PolicyAllows(TaskCfg.task_type, GetEnvironment(sysCache[1]),
                         AllowCorporateInDev(sysCache[1])))

\* C1 witness: a corporate task was let through in dev with the flag set
C1_Witness ==
    /\ Started /\ run.decision # None
    /\ TaskCfg.task_type = "corporate"
    /\ GetEnvironment(sysCache[1]) = "dev"
    /\ AllowCorporateInDev(sysCache[1])
    /\ Decision.allowed

\* C2: a denied request ends with 403 carrying the decision's reason, and
\* nothing was retrieved, generated or exported for it.
C2_DenyIsForbidden ==
    (Started /\ run.decision # None /\ ~Decision.allowed) =>
        /\ Done
        /\ Result = [kind |-> "http_error", status |-> 403, detail |-> Decision.reason]
        /\ NoCollaboratorCalled

\* C2 witness: a demo task was denied in prod
C2_Witness ==
    /\ Done /\ run.decision # None /\ ~Decision.allowed
    /\ TaskCfg.task_type = "demo" /\ run.env = "prod"
    /\ Result.status = 403

\* C3: an unknown task id ends with 404 and a kind mismatch with 400; the
\* access policy, retrieval, the generation backend and the exporter are not
\* invoked for either.
C3_ResolveErrors ==
    /\ (Started /\ run.task_id \notin DOMAIN taskFiles) =>
           /\ Done /\ Result.kind = "http_error" /\ Result.status = 404
           /\ run.decision = None /\ NoCollaboratorCalled
    /\ (Resolved /\ TaskCfg.task_type # run.task_type) =>
           /\ Done /\ Result.kind = "http_error" /\ Result.status = 400
           /\ run.decision = None /\ NoCollaboratorCalled

\* C3 witness: demo_hello was asked for as a corporate task
C3_Witness ==
    /\ Done /\ run.task_id = "demo_hello" /\ run.task_type = "corporate"
    /\ Resolved /\ TaskCfg.task_type = "demo"
    /\ Result.status = 400

-----------------------------------------------------------------------------
(* Orchestrator                                                            *)

\* C4: in the test environment every run that passed Resolve and Authorize
\* returns ok=true with the fixed sentinel answer of its path, and the
\* generation backend is not invoked.
C4_TestModeSentinel ==
    (Authorized /\ run.env = "test") =>
        /\ Done
        /\ Result.kind = "response"
        /\ Result.ok
        /\ Result.answer = Some(IF TaskCfg.task_type = "demo"
                                THEN TestModeDemoAnswer ELSE TestModeCorporateAnswer)
        /\ run.llm_calls = <<>>

\* the first generation-backend call of the run was made and did not succeed
FirstLLMCallFailed == Done /\ run.llm_calls = <<1>> /\ run.answers = <<>>

\* C5: if the first generation-backend call fails, the run returns
\* {ok: false, error} without raising, and there is no research
\* re-retrieval, no second backend call and no export.
C5_FirstFailureIsResult ==
    FirstLLMCallFailed =>
        /\ Result.kind = "response"
        /\ ~Result.ok
        /\ Result.error # None
        /\ Len(run.retrievals) <= 1
        /\ run.exports = <<>>

\* a generation-backend call of the run did not succeed
BackendFailed == Done /\ Len(run.answers) < Len(run.llm_calls)

\* C6: in every run in which the generation backend fails, exactly one
\* llm_error event and exactly one final event, with ok=false, are logged,
\* the llm_error event before the final event.
C6_ErrorEventsLogged ==
    BackendFailed =>
        /\ Cardinality(EventsOfType("llm_error")) = 1
        /\ Cardinality(EventsOfType("final")) = 1
        /\ \A i \in EventsOfType("final") :
               /\ ~run.log[i].payload.ok
               /\ \A j \in EventsOfType("llm_error") : j < i

\* C7: with research escalation enabled and both backend calls successful,
\* the answer returned and the content exported is the second call's answer.
C7_ResearchAnswerReplaces ==
    (Done /\ Resolved /\ TaskCfg.enable_research /\ Len(run.answers) = 2) =>
        /\ Result.kind = "response"
        /\ Result.answer = Some(run.answers[2])
        /\ \A i \in 1..Len(run.exports) : run.exports[i].content = run.answers[2]

\* C7 witness: the two calls answered differently and the answer was exported
C7_Witness ==
    /\ Done /\ Resolved /\ TaskCfg.enable_research /\ Len(run.answers) = 2
    /\ run.answers[1] # run.answers[2]
    /\ Len(run.exports) = 1
    /\ Result.answer = Some(run.answers[2])

SuccessfulRun == Done /\ Result.kind = "response" /\ Result.ok

\* the final answer went to the exporter exactly once and the response
\* metadata carries the path and the filename the exporter returned
ExportedOnce ==
    /\ Len(run.exports) = 1
    /\ run.exports[1].content = Result.answer[1]
    /\ Result.meta # None
    /\ "postprocessing" \in DOMAIN Result.meta[1]
    /\ LET saved == SaveFile(run.exports[1].format, run.exports[1].content, TaskCfg)
       IN  /\ Result.meta[1]["postprocessing"].path = saved[1]
           /\ Result.meta[1]["postprocessing"].filename = saved[2]

\* C8 as claimed: every successful run of a task whose postprocessing mode
\* is not none exports its final answer exactly once and returns the path and
\* filename; with mode none the exporter is not invoked.
C8_ExportUnlessNone ==
    SuccessfulRun =>
        IF TaskCfg.postprocessing_type # "none"
        THEN ExportedOnce
        ELSE run.exports = <<>>

\* C8 amended: every successful run outside the test environment of a task
\* whose postprocessing mode is markdown-file or docx-file exports its final
\* answer exactly once, in that format, and returns the path and filename;
\* with mode none or customscript, and in every run short-circuited by the
\* test environment, the exporter is not invoked.
C8_ExportByFileMode ==
    SuccessfulRun =>
        IF TaskCfg.postprocessing_type \in {"markdown-file", "docx-file"}
           /\ run.env # "test"
        THEN ExportedOnce /\ run.exports[1].format = TaskCfg.postprocessing_type
        ELSE run.exports = <<>>

\* C8 witness: a successful docx-file run exported its answer
C8_Witness ==
    /\ SuccessfulRun
    /\ TaskCfg.postprocessing_type = "docx-file"
    /\ ExportedOnce

\* a retrieval of the run, first or research, failed in the backend
RetrievalFailed == Done /\ \E i \in 1..Len(run.retrievals) : ~run.retrievals[i].ok

\* C9: a failure of the retrieval backend, in Retrieve or in the research
\* re-retrieval, is reported as a {ok: false, error} result with a final
\* event logged and is not raised out of the orchestrator.
C9_RetrievalFailureIsResult ==
    RetrievalFailed =>
        /\ Result.kind = "response"
        /\ ~Result.ok
        /\ Result.error # None
        /\ EventsOfType("final") # {}

\* C10: the access decision of every request follows the environment and
\* the allowCorporateInDev flag configured at the time of the request.
C10_DecisionFollowsConfig ==
    [][(run.pc = "idle" /\ run'.pc # "idle" /\ run'.decision # None) =>
           (run'.decision[1].allowed <=>
               PolicyAllows(run'.task_cfg[1].task_type, GetEnvironment(sysFile),
                            AllowCorporateInDev(sysFile)))]_vars

-----------------------------------------------------------------------------
(* Access policy: reasons                                                  *)

\* the pieces of a reason string in which the word "prod" occurs
PiecesWithProd == {"prod", "corporate task is allowed in prod"}

MentionsProd(reason) == \E i \in 1..Len(reason) : reason[i] \in PiecesWithProd

\* C11: a corporate task in dev with allowCorporateInDev=false is denied and
\* the reason of the denial mentions prod.
C11_DevDenialMentionsProd ==
    (/\ Started /\ run.decision # None
     /\ TaskCfg.task_type = "corporate"
     /\ run.env = "dev"
     /\ ~AllowCorporateInDev(sysCache[1])) =>
        /\ ~Decision.allowed
        /\ MentionsProd(Decision.reason)

-----------------------------------------------------------------------------
(* Calls of single operations, each on inputs drawn from bounded sets      *)

\* system.yaml contents check_task_access may read: with and without the
\* accesscontrol section
AccessConfigs == SystemConfigs \cup {[environment |-> e] : e \in Environments}

\* kinds handed to check_task_access: the two of the policy, and others
AccessKinds == TaskTypes \cup {"other", ""}

\* one system.yaml; no task file, no cache, no collection, no request
UnitInit ==
    /\ sysFile = [environment |-> "dev"]
    /\ sysCache = <<>>
    /\ taskFiles = EmptyDict
    /\ tasks = EmptyDict
    /\ colls = EmptyDict
    /\ run = IdleRun
    /\ probe = NoCall
    /\ routed = IdleGeneric
    /\ getters = [c \in Callers |-> IdleGetter]
    /\ seeders = [c \in Callers |-> IdleSeeder]

\* check_task_access(task_cfg) under the system configuration cfg
CheckAccessCall(task_type, cfg) ==
    /\ probe = NoCall
    /\ probe' = [op |-> "check_task_access", args |-> <<task_type, cfg>>,
                 out |-> CheckTaskAccess(task_type, cfg)]
    /\ UNCHANGED <<sysFile, sysCache, taskFiles, tasks, colls, run, routed, getters, seeders>>

\* a mapping with the key, or the empty mapping when the key is not written
Key(key, values) == {EmptyDict} \cup {key :> v : v \in values}

\* raw task configs: each key absent or present, with values inside and
\* outside what from_dict accepts
RawConfigs ==
    {id @@ kind @@ enums @@ nm @@ text @@ table @@ ctx :
        id \in Key("task_id", {"7", "", "demo_rules"}),
        kind \in Key("task_type", {"corporate", "other"}),
        enums \in {EmptyDict,
                   [sources_mode |-> "texttables", postprocessing_type |-> "docx-file"],
                   [sources_mode |-> "bogus"],
                   [postprocessing_type |-> "bogus"]},
        nm \in Key("name", {"Rules"}),
        text \in Key("text_search",
                     {[mode |-> "hybrid"]} \cup
                     {[mode |-> m, topk |-> k] :
                         m \in {"allwiththreshold", "bogus"}, k \in 0..MaxTopK}),
        table \in Key("table_search", {[mode |-> "hybrid"], [mode |-> "bogus"]}),
        ctx \in Key("context", {[format |-> "plain"]})}

\* calls are made one at a time: inputs are drawn only when no call is held
WhenIdle(inputs) == IF probe = NoCall THEN inputs ELSE {}

\* TaskConfig.from_dict(data)
FromDictCall ==
    \E data \in WhenIdle(RawConfigs) :
        /\ probe' = [op |-> "from_dict", args |-> <<data>>, out |-> FromDict(data)]
        /\ UNCHANGED <<sysFile, sysCache, taskFiles, tasks, colls, run, routed, getters, seeders>>

\* a parsed definition is written back as a raw mapping and parsed again
ReparseCall ==
    \E data \in WhenIdle(RawConfigs) :
        /\ FromDict(data).ok
        /\ LET first == FromDict(data).cfg
               raw == Serialize(first)
           IN  probe' = [op |-> "reparse", args |-> <<data>>,
                         out |-> [first |-> first, raw |-> raw,
                                  second |-> FromDict(raw)]]
        /\ UNCHANGED <<sysFile, sysCache, taskFiles, tasks, colls, run, routed, getters, seeders>>

\* tasks retrieval is called for: the two with a collection and one without
RetrievalIds == {"demo_hello", "demo_rules", "corp_task"}

\* similarity thresholds of the enumerated text_search sections, in hundredths
Thresholds == {0, 60}

\* definitions retrieval is called with: no text_search section, or one with
\* each mode, topk and threshold
RetrievalConfigs ==
    {FromDict(data).cfg :
        data \in {[task_id |-> id] : id \in RetrievalIds} \cup
                 {[task_id |-> id,
                   text_search |-> [mode |-> m, topk |-> k, similarity_threshold |-> t]] :
                      id \in RetrievalIds, m \in SearchModes, k \in 0..MaxTopK,
                      t \in Thresholds}}

\* retrieve_text_chunks(task_cfg, query, top_k)
RetrieveCall ==
    \E task_cfg \in WhenIdle(RetrievalConfigs), top_k \in {1, TopK},
       backend \in {"ok", "fail"} :
        /\ LET res == RetrieveTextChunks(task_cfg, top_k, colls, backend) IN
           /\ colls' = res.colls
           /\ probe' = [op |-> "retrieve_text_chunks", args |-> <<task_cfg, top_k>>,
                        out |-> [ok |-> res.ok, chunks |-> res.chunks]]
        /\ UNCHANGED <<sysFile, sysCache, taskFiles, tasks, run, routed, getters, seeders>>

\* retrieve_text_chunks_for_research(task_cfg, query)
ResearchRetrieveCall ==
    \E task_cfg \in WhenIdle(RetrievalConfigs), backend \in {"ok", "fail"} :
        /\ LET res == RetrieveTextChunksForResearch(task_cfg, colls, backend) IN
           /\ colls' = res.colls
           /\ probe' = [op |-> "retrieve_text_chunks_for_research",
                        args |-> <<task_cfg>>,
                        out |-> [ok |-> res.ok, chunks |-> res.chunks,
                                 top_k |-> ResearchTopK(BaseTopK(task_cfg))]]
        /\ UNCHANGED <<sysFile, sysCache, taskFiles, tasks, run, routed, getters, seeders>>

\* lists of chunks handed to the prompt builder, each chunk a document number
ChunkLists == UNION {[1..n -> 1..MaxChunks] : n \in 0..MaxChunks}

\* definitions the prompt is built for: without and with a technical prompt
PromptConfigs ==
    {FromDict([task_id |-> "demo_rules", technical_prompt |-> p]).cfg :
        p \in {"", "Answer from the rules only."}}

\* build_llm_prompt(task_cfg, query, chunks)
BuildPromptCall ==
    \E task_cfg \in PromptConfigs, chunks \in WhenIdle(ChunkLists),
       query \in {"how do I book a room"} :
        /\ probe' = [op |-> "build_llm_prompt", args |-> <<task_cfg, query, chunks>>,
                     out |-> BuildLLMPrompt(task_cfg, query, chunks)]
        /\ UNCHANGED <<sysFile, sysCache, taskFiles, tasks, colls, run, routed, getters, seeders>>

\* the caller is done with what the call gave back
CallReturns ==
    /\ probe # NoCall
    /\ probe' = NoCall
    /\ UNCHANGED <<sysFile, sysCache, taskFiles, tasks, colls, run, routed, getters, seeders>>

UnitNext ==
    \/ \E task_type \in AccessKinds, cfg \in AccessConfigs :
           CheckAccessCall(task_type, cfg)
    \/ FromDictCall
    \/ ReparseCall
    \/ RetrieveCall
    \/ ResearchRetrieveCall
    \/ BuildPromptCall
    \/ CallReturns

UnitSpec == UnitInit /\ [][UnitNext]_vars

-----------------------------------------------------------------------------
(* The task registry over a config/tasks directory that is edited          *)

\* names of the files of config/tasks, without ".yaml"
FileNames == {"demo_hello", "demo_rules"}

\* ids asked of the registry
RegistryIds == FileNames \cup {"ghost"}

\* contents of a task file: valid definitions with and without a text_search
\* section, a section with a mode outside SearchModes, an unknown kind, a file
\* without task_id, and a file whose task_id is an integer
RegistryRaws ==
    UNION {{[task_id |-> id],
            [task_id |-> id, text_search |-> [mode |-> "hybrid"]],
            [task_id |-> id, text_search |-> [mode |-> "bogus"]],
            [task_id |-> id, task_type |-> "other"]} : id \in FileNames}
    \cup {[name |-> "Rules"], [task_id |-> "7"]}

\* the two demo task files are in place, nothing is cached
RegistryInit ==
    /\ sysFile = [environment |-> "dev"]
    /\ sysCache = <<>>
    /\ taskFiles = [f \in FileNames |-> [task_id |-> f]]
    /\ tasks = EmptyDict
    /\ colls = EmptyDict
    /\ run = IdleRun
    /\ probe = NoCall
    /\ routed = IdleGeneric
    /\ getters = [c \in Callers |-> IdleGetter]
    /\ seeders = [c \in Callers |-> IdleSeeder]

\* config/tasks/<f>.yaml is written, new or over the old content
WriteTaskFile(f, data) ==
    /\ probe = NoCall
    /\ IF f \in DOMAIN taskFiles THEN taskFiles[f] # data ELSE TRUE
    /\ taskFiles' = (f :> data) @@ taskFiles
    /\ UNCHANGED <<sysFile, sysCache, tasks, colls, run, probe, routed, getters, seeders>>

\* config/tasks/<f>.yaml is deleted
RemoveTaskFile(f) ==
    /\ probe = NoCall
    /\ f \in DOMAIN taskFiles
    /\ taskFiles' = [g \in DOMAIN taskFiles \ {f} |-> taskFiles[g]]
    /\ UNCHANGED <<sysFile, sysCache, tasks, colls, run, probe, routed, getters, seeders>>

\* task_registry.get_task_config(task_id)
GetTaskConfigCall(task_id) ==
    /\ probe = NoCall
    /\ LET lookup == GetTaskConfig(task_id, tasks, taskFiles) IN
       /\ tasks' = lookup.tasks
       /\ probe' = [op |-> "get_task_config", args |-> <<task_id>>,
                    out |-> IF lookup.ok
                            THEN [ok |-> TRUE, cfg |-> lookup.cfg]
                            ELSE [ok |-> FALSE, error |-> lookup.error]]
    /\ UNCHANGED <<sysFile, sysCache, taskFiles, colls, run, routed, getters, seeders>>

\* task_registry.list_registered_tasks()
ListRegisteredTasksCall ==
    /\ probe = NoCall
    /\ LET listing == ListRegisteredTasks(tasks, taskFiles) IN
       /\ tasks' = listing.tasks
       /\ probe' = [op |-> "list_registered_tasks", args |-> <<>>,
                    out |-> listing.result]
    /\ UNCHANGED <<sysFile, sysCache, taskFiles, colls, run, routed, getters, seeders>>

RegistryNext ==
    \/ \E f \in FileNames, data \in RegistryRaws : WriteTaskFile(f, data)
    \/ \E f \in FileNames : RemoveTaskFile(f)
    \/ \E task_id \in RegistryIds : GetTaskConfigCall(task_id)
    \/ ListRegisteredTasksCall
    \/ CallReturns

RegistrySpec == RegistryInit /\ [][RegistryNext]_vars

\* C13: the registry cache changes only by gaining an entry on the first
\* successful get of an id: a cached entry is never replaced or removed, a
\* failed get leaves the cache unchanged, and a get of a cached id returns the
\* cached definition without loading again, whatever the source has become.
C13_CacheOnlyGains ==
    [][/\ \A k \in DOMAIN tasks : k \in DOMAIN tasks' /\ tasks'[k] = tasks[k]
       /\ \A k \in DOMAIN tasks' \ DOMAIN tasks :
              /\ probe'.op \in {"get_task_config", "list_registered_tasks"}
              /\ LoadTaskConfig(k, taskFiles).ok
              /\ tasks'[k] = LoadTaskConfig(k, taskFiles).cfg
       /\ (probe = NoCall /\ probe'.op = "get_task_config") =>
              LET task_id == probe'.args[1] IN
              /\ ~probe'.out.ok => tasks' = tasks
              /\ task_id \in DOMAIN tasks =>
                     /\ probe'.out.ok
                     /\ probe'.out.cfg = tasks[task_id]
                     /\ tasks' = tasks
              /\ (task_id \notin DOMAIN tasks /\ probe'.out.ok) =>
                     /\ DOMAIN tasks' = DOMAIN tasks \cup {task_id}
                     /\ tasks'[task_id] = probe'.out.cfg]_vars

\* a get was answered from the cache although the file now holds another
\* valid definition
C13_Witness ==
    /\ probe.op = "get_task_config"
    /\ probe.out.ok
    /\ LoadTaskConfig(probe.args[1], taskFiles).ok
    /\ LoadTaskConfig(probe.args[1], taskFiles).cfg # probe.out.cfg

\* the files of config/tasks whose content from_dict accepts
ValidSources == {f \in DOMAIN taskFiles : FromDict(taskFiles[f]).ok}

\* the summary of the definition a valid source holds
SummaryOf(f) == RegisteredTask(FromDict(taskFiles[f]).cfg)

Count(seq, x) == Cardinality({i \in 1..Len(seq) : seq[i] = x})

\* C14: listAll returns exactly one summary for every discoverable task source
\* whose definition is valid, cached before or not, omits every source that
\* fails validation, and leaves every listed task cached.
C14_ListsValidSources ==
    probe.op = "list_registered_tasks" =>
        /\ Len(probe.out) = Cardinality(ValidSources)
        /\ \A f \in ValidSources :
               Count(probe.out, SummaryOf(f)) =
                   Cardinality({g \in ValidSources : SummaryOf(g) = SummaryOf(f)})
        /\ \A i \in 1..Len(probe.out) : probe.out[i].task_id \in DOMAIN tasks

\* the enumerated fields of a definition are within their sets
ValidEnums(cfg) ==
    /\ cfg.task_type \in TaskTypes
    /\ cfg.sources_mode \in SourcesModes
    /\ cfg.postprocessing_type \in PostprocessingTypes
    /\ cfg.text_search # None => cfg.text_search[1].mode \in SearchModes
    /\ cfg.table_search # None => cfg.table_search[1].mode \in SearchModes

\* C15: every definition ever held in the registry cache has its kind,
\* sourcesMode and postprocessing within their enumerated sets and every
\* present search sub-config's mode within the three retrieval modes; a raw
\* config violating any of these is never registered.
C15_CachedAreValid == \A k \in DOMAIN tasks : ValidEnums(tasks[k])

-----------------------------------------------------------------------------
(* Access policy: every decision                                           *)

\* the reason string, the concatenation of its pieces, is not empty
NonEmptyReason(reason) == \E i \in 1..Len(reason) : reason[i] # ""

\* C12: every decision, allow or deny, carries a non-empty reason, and a kind
\* the policy does not know is denied in every environment and for every
\* value of allowCorporateInDev.
C12_ReasonAndUnknownKind ==
    probe.op = "check_task_access" =>
        /\ probe.out.allowed \in BOOLEAN
        /\ NonEmptyReason(probe.out.reason)
        /\ probe.args[1] \notin TaskTypes => ~probe.out.allowed

\* an unknown kind was decided in prod, where corporate tasks are allowed
C12_Witness ==
    /\ probe.op = "check_task_access"
    /\ probe.args[1] = "other"
    /\ GetEnvironment(probe.args[2]) = "prod"
    /\ ~probe.out.allowed

-----------------------------------------------------------------------------
(* Task configs: parsing                                                   *)

\* the id of a raw config is absent, is not a string, or is the empty string
MalformedId(data) ==
    \/ "task_id" \notin DOMAIN data
    \/ ~IsStr(data["task_id"])
    \/ data["task_id"] = ""

\* C16: parse fails with ConfigError, producing no definition, for every raw
\* config whose id is absent, is not a string, or is the empty string.
C16_MalformedIdRejected ==
    (probe.op = "from_dict" /\ MalformedId(probe.args[1])) => ~probe.out.ok

-----------------------------------------------------------------------------
(* Retrieval                                                               *)

\* the documents of the task's collection
Candidates(task_cfg) ==
    IF HasCollection(task_cfg.task_id)
          /\ CollectionName(task_cfg.task_id) \in DOMAIN colls
    THEN colls[CollectionName(task_cfg.task_id)]
    ELSE {}

\* C18: the candidate count requested by retrieveForResearch equals
\* max(2*base, base+1), base being the task's base top-k, and is strictly
\* greater than base for every base >= 0, base 0 and base 1 included.
C18_ResearchCount ==
    probe.op = "retrieve_text_chunks_for_research" =>
        LET base == BaseTopK(probe.args[1])
            count == probe.out.top_k
        IN  /\ count = (IF 2 * base >= base + 1 THEN 2 * base ELSE base + 1)
            /\ count > base
            /\ probe.out.ok =>
                   Len(probe.out.chunks) =
                       Min(count, Cardinality(Candidates(probe.args[1])))

\* the research pass of a task whose base top-k is 0 asked for one candidate
\* and got one
C18_Witness ==
    /\ probe.op = "retrieve_text_chunks_for_research"
    /\ BaseTopK(probe.args[1]) = 0
    /\ probe.out.top_k = 1
    /\ probe.out.ok
    /\ Len(probe.out.chunks) = 1

\* the score meets the similarity threshold
Meets(score, threshold) == score >= threshold

\* C19: for a task whose text-search mode is threshold-filtered, retrieve
\* returns every candidate whose score meets the configured
\* similarityThreshold and no other candidate, with no truncation to topK.
C19_ThresholdFiltered ==
    (/\ probe.op = "retrieve_text_chunks"
     /\ probe.args[1].text_search # None
     /\ probe.args[1].text_search[1].mode = "allwiththreshold"
     /\ probe.out.ok) =>
        LET meeting == {d \in Candidates(probe.args[1]) :
                           Meets(Score(d), probe.args[1].text_search[1].similarity_threshold)}
        IN  /\ {probe.out.chunks[i] : i \in 1..Len(probe.out.chunks)} = meeting
            /\ Len(probe.out.chunks) = Cardinality(meeting)

-----------------------------------------------------------------------------
(* Prompt builder                                                          *)

\* the context section of a prompt: the lines after the header line, up to
\* the first empty line
ContextSection(prompt) ==
    LET h == CHOOSE i \in 1..Len(prompt) : prompt[i].kind = "header"
        e == CHOOSE j \in (h + 1)..Len(prompt) :
                 /\ prompt[j].kind = "blank"
                 /\ \A k \in (h + 1)..(j - 1) : prompt[k].kind # "blank"
    IN  SubSeq(prompt, h + 1, e - 1)

IsContextLine(line) == line.kind = "context"

IsMarker(line) == line.kind = "marker"

\* C20: build never produces an empty context section: with zero fragments
\* the prompt contains the no-context marker and no enumerated line, and with
\* N >= 1 fragments it contains exactly N enumerated context lines, numbered
\* 1..N in the order of the fragments.
C20_ContextSection ==
    probe.op = "build_llm_prompt" =>
        LET prompt == probe.out
            chunks == probe.args[3]
            section == ContextSection(prompt)
            enumerated == SelectSeq(prompt, IsContextLine)
        IN  /\ section # <<>>
            /\ Len(enumerated) = Len(chunks)
            /\ \A i \in 1..Len(enumerated) :
                   /\ enumerated[i].i = i
                   /\ enumerated[i].source = chunks[i]
            /\ chunks = <<>> => SelectSeq(section, IsMarker) # <<>>
            /\ chunks # <<>> => section = enumerated

\* a prompt was built from no fragment and shows the marker
C20_Witness ==
    /\ probe.op = "build_llm_prompt"
    /\ probe.args[3] = <<>>
    /\ Len(ContextSection(probe.out)) = 1
    /\ IsMarker(ContextSection(probe.out)[1])

-----------------------------------------------------------------------------
(* The routed entry point: POST /api/v1/query                              *)

\* the request ids under which a query logged events: the classifier's
\* events carry the id generic_query minted, the events of _run_task the id
\* _run_task minted
EventIds(g, r) ==
    {g.log[i].request_id : i \in 1..Len(g.log)}
    \cup (IF r.log # <<>> THEN {g.run_request_id} ELSE {})

\* The process has just started.  demo_hello, when its file is there, is a
\* demo task with a collection; corp_task is a corporate task, or a demo
\* task without a collection.
RoutedInit ==
    /\ sysFile \in SystemConfigs
    /\ sysCache = <<>>
    /\ \E research \in BOOLEAN, kind \in TaskTypes :
           \/ taskFiles = ("demo_hello" :> RawTask("demo_hello", "demo", research, "markdown-file"))
                        @@ ("corp_task" :> RawTask("corp_task", kind, FALSE, "none"))
           \/ /\ ~research
              /\ taskFiles = ("corp_task" :> RawTask("corp_task", kind, FALSE, "none"))
    /\ tasks = EmptyDict
    /\ colls = EmptyDict
    /\ run = IdleRun
    /\ probe = NoCall
    /\ routed = IdleGeneric
    /\ getters = [c \in Callers |-> IdleGetter]
    /\ seeders = [c \in Callers |-> IdleSeeder]

\* routes.py:457-465: generic_query mints its request id, reads the
\* environment and awaits classify_query
GenericQuery(debug) ==
    /\ routed.pc = "idle"
    /\ run.pc = "idle"
    /\ routed.served < MaxRequests
    /\ LET cache == LoadSystemConfig(sysCache, sysFile)
       IN  /\ sysCache' = cache
           /\ routed' = NewGeneric(routed, Uuid4(routed.minted),
                                   GetEnvironment(cache[1]), debug)
    /\ UNCHANGED <<sysFile, taskFiles, tasks, colls, run, probe, getters, seeders>>

\* routes.py:467-508: classify_query has ended.  generic_query answers a
\* failed classification, a demo task in prod and a task the registry cannot
\* load by itself; otherwise it calls _run_task, which mints its own request
\* id and runs up to its first await or to its end
ClassifierEnds(call, backend) ==
    /\ routed.pc = "await_classify"
    /\ LET classification == ClassifyQuery(call)
           g1 == [routed EXCEPT !.call = Some(call),
                                !.classification = Some(classification),
                                !.log = ClassifyEvents(routed.request_id)]
       IN  IF ClassificationFailed(classification)
           THEN /\ routed' = GenericQueryResponse(g1, FALSE, None, None, None,
                                 Some(ClassificationError(classification)))
                /\ UNCHANGED <<sysCache, tasks, colls, run, getters, seeders>>
           ELSE IF DemoInProd(g1.env, classification)
           THEN /\ routed' = GenericQueryResponse(g1, FALSE, None, None, None,
                                 Some(<<"demo tasks are not available in prod environment">>))
                /\ UNCHANGED <<sysCache, tasks, colls, run, getters, seeders>>
           ELSE LET task_id == classification.task_id[1]
                    task_type == classification.task_type[1]
                    checked == GetTaskConfig(task_id, tasks, taskFiles)
                IN  IF ~checked.ok
                    THEN /\ routed' = GenericQueryResponse(g1, FALSE, None,
                                          classification.task_id,
                                          classification.task_type,
                                          Some(<<checked.error>>))
                         /\ tasks' = checked.tasks
                         /\ UNCHANGED <<sysCache, colls, run, getters, seeders>>
                    ELSE LET cache == LoadSystemConfig(sysCache, sysFile)
                             lookup == GetTaskConfig(task_id, checked.tasks, taskFiles)
                             step == RunTaskStart(task_id, task_type, g1.debug,
                                                  cache[1], lookup, colls, backend)
                             g2 == [g1 EXCEPT !.pc = "await_task",
                                              !.run_request_id = Uuid4(g1.minted),
                                              !.minted = @ + 1]
                         IN  /\ sysCache' = cache
                             /\ tasks' = lookup.tasks
                             /\ run' = step.run
                             /\ colls' = step.colls
                             /\ routed' = AfterRunStep(g2, step.run)
    /\ UNCHANGED <<sysFile, taskFiles, probe, getters, seeders>>

\* the framework has sent the response of generic_query (the response object,
\* or the error response of an exception that left it); the coroutines are
\* gone, the event sink keeps what they logged
GenericResponseSent ==
    /\ routed.pc = "done"
    /\ routed' = [IdleGeneric EXCEPT !.minted = routed.minted,
                                     !.used = routed.used \cup EventIds(routed, run),
                                     !.served = routed.served + 1]
    /\ run' = IdleRun
    /\ UNCHANGED <<sysFile, sysCache, taskFiles, tasks, colls, probe, getters, seeders>>

RoutedNext ==
    \/ \E debug \in BOOLEAN : GenericQuery(debug)
    \/ \E call \in ClassifierCalls, backend \in {"ok", "fail"} :
           ClassifierEnds(call, backend)
    \/ \E http \in HttpOutcomes, backend \in {"ok", "fail"} : DemoLLM1Ends(http, backend)
    \/ \E http \in HttpOutcomes : DemoLLM2Ends(http)
    \/ \E http \in HttpOutcomes : CorporateLLMEnds(http)
    \/ GenericResponseSent

RoutedSpec == RoutedInit /\ [][RoutedNext]_vars

\* vocabulary of the routed entry point
Classification == routed.classification[1]

Responded == routed.pc = "done"

Response == routed.response[1]

-----------------------------------------------------------------------------
(* The routed entry point: classification and responses                    *)

\* the classifier's backend call returned a text that does not parse
Unparseable ==
    /\ routed.call # None
    /\ routed.call[1].kind = "returned"
    /\ ~routed.call[1].content.parses

\* the classification is the default task, with ok=true
ClassifiedToDefault ==
    /\ Classification.ok
    /\ Classification.task_id = Some(DefaultTask.task_id)
    /\ Classification.task_type = Some(DefaultTask.task_type)

\* _run_task was called for the default task
PipelineRunForDefault ==
    /\ run.pc # "idle"
    /\ run.task_id = DefaultTask.task_id
    /\ run.task_type = DefaultTask.task_type

\* the response reports a classification error
ClassificationErrorAnswered ==
    /\ Responded /\ Response.kind = "response"
    /\ Response.error = Some(<<"classification_failed">>)

\* C21 as stated: a routed query whose classifier response cannot be parsed
\* is classified to the default task id and kind with ok=true, the normal
\* pipeline is then run for that default task, and the request is never
\* answered with a classification error.
C21_UnparseableRunsDefault ==
    Unparseable =>
        /\ ClassifiedToDefault
        /\ PipelineRunForDefault
        /\ ~ClassificationErrorAnswered

\* generic_query answered by itself, without calling _run_task
AnsweredWithoutPipeline(error) ==
    /\ Responded /\ Response.kind = "response"
    /\ ~Response.ok
    /\ Response.error = Some(error)
    /\ run.pc = "idle" /\ run.log = <<>>

\* C21, amended: a routed query whose classifier response cannot be parsed is
\* classified to the default task id and kind with ok=true and is never
\* answered with a classification error.  The normal pipeline is then run for
\* the default task, except that a demo default task in environment prod is
\* answered ok=false "demo tasks are not available in prod environment", and a
\* default task whose definition cannot be loaded is answered ok=false with
\* the registry's error, both without running the pipeline.
C21_UnparseableRunsDefaultUnlessGated ==
    Unparseable =>
        /\ ClassifiedToDefault
        /\ ~ClassificationErrorAnswered
        /\ IF routed.env = "prod" /\ DefaultTask.task_type = "demo"
           THEN AnsweredWithoutPipeline(
                    <<"demo tasks are not available in prod environment">>)
           ELSE IF DefaultTask.task_id \notin DOMAIN taskFiles
           THEN /\ AnsweredWithoutPipeline(<<"Task config not found">>)
                /\ Response.routed_task_id = Some(DefaultTask.task_id)
           ELSE PipelineRunForDefault

\* an unparseable classifier response was answered with the default task's
\* answer
C21_Witness ==
    /\ Unparseable
    /\ Responded /\ Response.kind = "response" /\ Response.ok
    /\ Response.routed_task_id = Some(DefaultTask.task_id)
    /\ run.llm_calls # <<>>

\* C22: when classification returns ok=false because the generation backend
\* could not be reached, the routed entry point returns ok=false with the
\* classifier's error message and no routed task id or kind, no default task
\* is substituted, and no pipeline stage is run for that query.
C22_BackendFailureNoFallback ==
    (routed.call # None /\ routed.call[1].kind = "raised") =>
        /\ ~Classification.ok
        /\ Classification.task_id = None /\ Classification.task_type = None
        /\ Responded /\ Response.kind = "response"
        /\ ~Response.ok
        /\ Response.error = Some(routed.call[1].msg)
        /\ Response.routed_task_id = None /\ Response.routed_task_type = None
        /\ run.pc = "idle" /\ run.log = <<>>

\* the classifier could not reach the backend and the query was answered
C22_Witness ==
    /\ routed.call # None /\ routed.call[1].kind = "raised"
    /\ Responded /\ ~Response.ok
    /\ Response.error = Some(<<"backend unreachable">>)

\* C23: every response of the routed entry point, whatever the classification
\* and pipeline outcome, is a structured result object containing the fields
\* ok, routed_task_id and routed_task_type with a non-5xx status; no pipeline
\* failure escapes the routed entry point as an exception.
C23_AlwaysStructured ==
    Responded =>
        /\ Response.kind = "response"
        /\ {"ok", "routed_task_id", "routed_task_type"} \subseteq DOMAIN Response

\* the events logged so far for the query being handled, each with the
\* request id it was logged under
QueryEvents ==
    routed.log \o [i \in 1..Len(run.log) |->
                      [event_type |-> run.log[i].event_type,
                       request_id |-> routed.run_request_id]]

\* C27: all events logged while handling one query carry the same requestId,
\* and no two queries ever log events under the same requestId; for the
\* routed entry point this covers the events logged during classification
\* and those logged by the task pipeline.
C27_OneRequestIdPerQuery ==
    /\ \A i, j \in 1..Len(QueryEvents) :
           QueryEvents[i].request_id = QueryEvents[j].request_id
    /\ \A i \in 1..Len(QueryEvents) : QueryEvents[i].request_id \notin routed.used

-----------------------------------------------------------------------------
(* The registry cache under concurrent get_task_config calls.  The steps   *)
(* of a call are its statements, so that the calls interleave in every way *)
(* threads could; the coroutines of the service, which run get_task_config  *)
(* without suspension, are the interleavings in which a call's steps follow *)
(* one another.                                                            *)

\* contents of config/tasks/demo_hello.yaml: valid definitions, one with a
\* section whose mode is outside SearchModes, and one of an unknown kind
RaceRaws ==
    {[task_id |-> "demo_hello"],
     [task_id |-> "demo_hello", text_search |-> [mode |-> "hybrid"]],
     [task_id |-> "demo_hello", text_search |-> [mode |-> "bogus"]],
     [task_id |-> "demo_hello", task_type |-> "other"]}

\* no caller is inside get_task_config
NoGetInFlight == \A c \in Callers : getters[c].pc \in {"idle", "returned", "raised"}

\* demo_hello.yaml is in place, nothing is cached, nobody is calling
RaceInit ==
    /\ sysFile = [environment |-> "dev"]
    /\ sysCache = <<>>
    /\ \E data \in RaceRaws : taskFiles = ("demo_hello" :> data)
    /\ tasks = EmptyDict
    /\ colls = EmptyDict
    /\ run = IdleRun
    /\ probe = NoCall
    /\ routed = IdleGeneric
    /\ getters = [c \in Callers |-> IdleGetter]
    /\ seeders = [c \in Callers |-> IdleSeeder]

\* task_registry.py:32-33: `if task_id in self._tasks: return self._tasks[task_id]`
GetChecks(c, task_id) ==
    /\ getters[c].pc = "idle"
    /\ getters' = [getters EXCEPT ![c] =
                      IF task_id \in DOMAIN tasks
                      THEN [pc |-> "returned", task_id |-> task_id, cfg |-> None,
                            out |-> Some(tasks[task_id])]
                      ELSE [pc |-> "missed", task_id |-> task_id, cfg |-> None,
                            out |-> None]]
    /\ UNCHANGED <<sysFile, sysCache, taskFiles, tasks, colls, run, probe, routed, seeders>>

\* task_registry.py:34-37: load_task_config reads and parses the file; a
\* TaskConfigError leaves the call as TaskRegistryError
GetLoads(c) ==
    /\ getters[c].pc = "missed"
    /\ LET loaded == LoadTaskConfig(getters[c].task_id, taskFiles) IN
       getters' = [getters EXCEPT ![c] =
                      IF loaded.ok
                      THEN [@ EXCEPT !.pc = "loaded", !.cfg = Some(loaded.cfg)]
                      ELSE [@ EXCEPT !.pc = "raised"]]
    /\ UNCHANGED <<sysFile, sysCache, taskFiles, tasks, colls, run, probe, routed, seeders>>

\* task_registry.py:38-39: `self._tasks[task_id] = cfg; return cfg`; the
\* entry of an earlier writer is replaced
GetStores(c) ==
    /\ getters[c].pc = "loaded"
    /\ tasks' = (getters[c].task_id :> getters[c].cfg[1]) @@ tasks
    /\ getters' = [getters EXCEPT ![c] = [@ EXCEPT !.pc = "returned",
                                                   !.out = getters[c].cfg]]
    /\ UNCHANGED <<sysFile, sysCache, taskFiles, colls, run, probe, routed, seeders>>

\* the callers that have left get_task_config go on with their work
GettersLeave ==
    /\ NoGetInFlight
    /\ \E c \in Callers : getters[c].pc # "idle"
    /\ getters' = [c \in Callers |-> IdleGetter]
    /\ UNCHANGED <<sysFile, sysCache, taskFiles, tasks, colls, run, probe, routed, seeders>>

\* the task file is rewritten while no call is in flight
EditWhenQuiet(f, data) ==
    /\ NoGetInFlight
    /\ WriteTaskFile(f, data)

RaceNext ==
    \/ \E c \in Callers, task_id \in {"demo_hello"} : GetChecks(c, task_id)
    \/ \E c \in Callers : GetLoads(c)
    \/ \E c \in Callers : GetStores(c)
    \/ GettersLeave
    \/ \E data \in RaceRaws : EditWhenQuiet("demo_hello", data)

RaceSpec == RaceInit /\ [][RaceNext]_vars

\* the callers that got a definition from their call
Received == {c \in Callers : getters[c].pc = "returned"}

\* once the calls have returned, every caller has received the definition
\* the cache holds, which is what every later get returns
OneDefinitionForAll ==
    NoGetInFlight =>
        \A c \in Received :
            /\ getters[c].task_id \in DOMAIN tasks
            /\ getters[c].out = Some(tasks[getters[c].task_id])

\* the definitions load_task_config gives for the contents of the file
LoadedDefinitions == {FromDict(d).cfg : d \in {e \in RaceRaws : FromDict(e).ok}}

\* the cache entry is absent or a whole definition that a load gave
RaceKeepsWholeEntries == \A k \in DOMAIN tasks : tasks[k] \in LoadedDefinitions

\* C30: under any interleaving of concurrent get calls for the same uncached
\* id, the cache entry for that id is at every moment either absent or a
\* complete valid definition, and once all the calls have returned, every
\* caller has received, and every later get returns, the same definition.
C30_RaceIsHarmless ==
    /\ \A k \in DOMAIN tasks : tasks[k] \in LoadedDefinitions /\ ValidEnums(tasks[k])
    /\ OneDefinitionForAll

\* two callers raced to load the same id and a third got it from the cache
RaceHappened ==
    /\ NoGetInFlight
    /\ Cardinality(Received) = 3
    /\ Cardinality({c \in Received : getters[c].cfg # None}) = 2

-----------------------------------------------------------------------------
(* The demo collections under concurrent ensure_collection_for_task calls. *)
(* The vector store is persistent and shared by the processes that open    *)
(* its directory; the steps of a call are its calls of the store.  A       *)
(* collection is keyed by document id, so it is the set of its ids.        *)

\* the tasks that have a demo collection
SeedTasks == {"demo_hello", "demo_rules"}

\* no caller is inside ensure_collection_for_task
NoSeedInFlight == \A c \in Callers : seeders[c].pc \in {"idle", "returned", "raised"}

\* the store is new: no collection exists, nobody is calling
SeedInit ==
    /\ sysFile = [environment |-> "dev"]
    /\ sysCache = <<>>
    /\ taskFiles = [f \in SeedTasks |-> [task_id |-> f]]
    /\ tasks = EmptyDict
    /\ colls = EmptyDict
    /\ run = IdleRun
    /\ probe = NoCall
    /\ routed = IdleGeneric
    /\ getters = [c \in Callers |-> IdleGetter]
    /\ seeders = [c \in Callers |-> IdleSeeder]

\* rag_pipeline.py:24, 42: client.get_or_create_collection(name=...)
SeedCreates(c, task_id) ==
    /\ seeders[c].pc = "idle"
    /\ LET name == CollectionName(task_id) IN
       colls' = IF name \in DOMAIN colls THEN colls ELSE (name :> {}) @@ colls
    /\ seeders' = [seeders EXCEPT ![c] = [pc |-> "created", task_id |-> task_id,
                                          added |-> FALSE]]
    /\ UNCHANGED <<sysFile, sysCache, taskFiles, tasks, run, probe, routed, getters>>

\* rag_pipeline.py:25-26, 43-44: `if coll.count() > 0: return coll`
SeedCounts(c) ==
    /\ seeders[c].pc = "created"
    /\ seeders' = [seeders EXCEPT ![c].pc =
                      IF Cardinality(colls[CollectionName(seeders[c].task_id)]) > 0
                      THEN "returned" ELSE "empty"]
    /\ UNCHANGED <<sysFile, sysCache, taskFiles, tasks, colls, run, probe, routed, getters>>

\* rag_pipeline.py:33-38, 76-81: coll.add(ids=..., documents=...) and return.
\* An id the collection already holds is not added again: the store leaves
\* it out or, in other versions of the library, refuses the call
SeedAdds(c, duplicate) ==
    /\ seeders[c].pc = "empty"
    /\ LET name == CollectionName(seeders[c].task_id)
           docs == SeedDocs(seeders[c].task_id)
       IN  IF colls[name] \cap docs # {} /\ duplicate = "refused"
           THEN /\ seeders' = [seeders EXCEPT ![c].pc = "raised"]
                /\ UNCHANGED colls
           ELSE /\ seeders' = [seeders EXCEPT ![c].pc = "returned", ![c].added = TRUE]
                /\ colls' = [colls EXCEPT ![name] = @ \cup docs]
    /\ UNCHANGED <<sysFile, sysCache, taskFiles, tasks, run, probe, routed, getters>>

\* the callers that have left ensure_collection_for_task go on
SeedersLeave ==
    /\ NoSeedInFlight
    /\ \E c \in Callers : seeders[c].pc # "idle"
    /\ seeders' = [c \in Callers |-> IdleSeeder]
    /\ UNCHANGED <<sysFile, sysCache, taskFiles, tasks, colls, run, probe, routed, getters>>

SeedNext ==
    \/ \E c \in Callers, task_id \in SeedTasks : SeedCreates(c, task_id)
    \/ \E c \in Callers : SeedCounts(c)
    \/ \E c \in Callers, duplicate \in {"left_out", "refused"} : SeedAdds(c, duplicate)
    \/ SeedersLeave

SeedSpec == SeedInit /\ [][SeedNext]_vars

\* C31: after any number of retrieve calls for a task, sequential or
\* concurrent on first access, the task's collection contains exactly its
\* fixed reference documents, each once (one for demo_hello, four for
\* demo_rules): seeding happens only when the collection is empty and never
\* duplicates or drops a document.
C31_SeededOnce ==
    [][/\ \A task_id \in SeedTasks :
              CollectionName(task_id) \in DOMAIN colls' =>
                  colls'[CollectionName(task_id)] \in {{}, SeedDocs(task_id)}
       /\ \A c \in Callers :
              seeders'[c].pc = "returned" =>
                  /\ colls'[CollectionName(seeders'[c].task_id)]
                         = SeedDocs(seeders'[c].task_id)
                  /\ Cardinality(SeedDocs(seeders'[c].task_id))
                         = IF seeders'[c].task_id = "demo_hello" THEN 1 ELSE 4
       /\ \A name \in DOMAIN colls :
              colls'[name] # colls[name] => colls[name] = {}]_vars

\* two callers both found the demo_rules collection empty, both added the
\* four documents, and a third found it seeded
C31_Witness ==
    /\ NoSeedInFlight
    /\ \A c \in Callers : seeders[c].pc = "returned" /\ seeders[c].task_id = "demo_rules"
    /\ Cardinality({c \in Callers : seeders[c].added}) = 2
    /\ colls["demo_rules_texts"] = 1..4

-----------------------------------------------------------------------------
(* The service with all its entry points: the task listing, the single     *)
(* task lookup, the direct query and the routed query                      *)

\* GET /api/v1/tasks
ListTasksCall ==
    /\ probe = NoCall
    /\ LET cache == LoadSystemConfig(sysCache, sysFile)
           listing == ListRegisteredTasks(tasks, taskFiles)
       IN  /\ sysCache' = cache
           /\ tasks' = listing.tasks
           /\ probe' = [op |-> "list_tasks", args |-> <<>>,
                        out |-> ListTasks(GetEnvironment(cache[1]), listing.result)]
    /\ UNCHANGED <<sysFile, taskFiles, colls, run, routed, getters, seeders>>

\* GET /api/v1/tasks/{task_id}
GetTaskCall(task_id) ==
    /\ probe = NoCall
    /\ LET cache == LoadSystemConfig(sysCache, sysFile)
           lookup == GetTaskConfig(task_id, tasks, taskFiles)
       IN  /\ sysCache' = cache
           /\ tasks' = lookup.tasks
           /\ probe' = [op |-> "get_task", args |-> <<task_id>>,
                        out |-> GetTask(GetEnvironment(cache[1]), lookup)]
    /\ UNCHANGED <<sysFile, taskFiles, colls, run, routed, getters, seeders>>

\* POST /api/v1/task/query while no routed query is being handled
DirectQuery(task_id, task_type, debug, backend) ==
    /\ routed.pc = "idle"
    /\ TaskQuery(task_id, task_type, debug, backend)

ServiceNext ==
    \/ ListTasksCall
    \/ \E task_id \in {"demo_hello", "corp_task", "ghost"} : GetTaskCall(task_id)
    \/ CallReturns
    \/ \E task_id \in {"demo_hello", "corp_task", "ghost"}, task_type \in TaskTypes,
          debug \in BOOLEAN, backend \in {"ok", "fail"} :
           DirectQuery(task_id, task_type, debug, backend)
    \/ ResponseSent
    \/ \E debug \in BOOLEAN : GenericQuery(debug)
    \/ \E call \in ClassifierCalls, backend \in {"ok", "fail"} :
           ClassifierEnds(call, backend)
    \/ \E http \in HttpOutcomes, backend \in {"ok", "fail"} : DemoLLM1Ends(http, backend)
    \/ \E http \in HttpOutcomes : DemoLLM2Ends(http)
    \/ \E http \in HttpOutcomes : CorporateLLMEnds(http)
    \/ GenericResponseSent

ServiceSpec == RoutedInit /\ [][ServiceNext]_vars

\* the environment the process runs in is prod
InProd == sysCache # <<>> /\ GetEnvironment(sysCache[1]) = "prod"

\* C34: in environment prod no demo task is ever exposed or executed through
\* any entry point: it is absent from the task listing, the single-task
\* lookup answers not-found for it, a direct query for it is denied before
\* retrieval or generation, and a routed query classified to a demo task is
\* refused without running the pipeline.
C34_NoDemoInProd ==
    InProd =>
        /\ probe.op = "list_tasks" =>
               \A i \in 1..Len(probe.out) : probe.out[i].task_type # "demo"
        /\ (/\ probe.op = "get_task"
            /\ probe.args[1] \in DOMAIN tasks
            /\ tasks[probe.args[1]].task_type = "demo") =>
               /\ probe.out.kind = "http_error"
               /\ probe.out.status = 404
        /\ (Started /\ Resolved /\ TaskCfg.task_type = "demo") =>
               /\ Done
               /\ Result.kind = "http_error"
               /\ Result.status \in {400, 403}
               /\ NoCollaboratorCalled
        /\ (/\ routed.classification # None
            /\ Classification.task_type = Some("demo")) =>
               /\ Responded
               /\ Response.kind = "response"
               /\ ~Response.ok
               /\ Response.routed_task_id = None
               /\ run.pc = "idle" /\ run.log = <<>>

\* in prod the listing was asked for while a demo task was registered and
\* gave the corporate task only
C34_Witness ==
    /\ InProd
    /\ probe.op = "list_tasks"
    /\ \E k \in DOMAIN tasks : tasks[k].task_type = "demo"
    /\ \E k \in DOMAIN tasks : tasks[k].task_type = "corporate"
    /\ Len(probe.out) = 1

-----------------------------------------------------------------------------
(* Orchestrator: answers and events                                        *)

\* every generation-backend call of the finished run was answered with
\* success, and every retrieval of the run returned
BackendAnswered ==
    /\ Done
    /\ run.llm_calls # <<>>
    /\ Len(run.answers) = Len(run.llm_calls)
    /\ \A i \in 1..Len(run.retrievals) : run.retrievals[i].ok

\* C24: for a demo task in environment dev, whenever the generation backend
\* responds with success the result has ok=true and an answer that is a
\* non-empty string, for any number of retrieved fragments.
C24_DemoDevAnswerNonEmpty ==
    (BackendAnswered /\ TaskCfg.task_type = "demo" /\ run.env = "dev") =>
        /\ Result.kind = "response"
        /\ Result.ok
        /\ Result.answer # None
        /\ Result.answer[1] # <<>>

\* C25: every run that returns a result object (success, test short-circuit
\* or backend failure) logs exactly one final event, and that event is the
\* last event of the run.
C25_OneFinalEventLast ==
    (Done /\ Result.kind = "response") =>
        /\ Cardinality(EventsOfType("final")) = 1
        /\ run.log[Len(run.log)].event_type = "final"

\* a backend failure was returned as a result after an llm_error event and
\* one final event
C25_Witness ==
    /\ Done /\ Result.kind = "response" /\ ~Result.ok
    /\ EventsOfType("llm_error") # {}
    /\ Cardinality(EventsOfType("final")) = 1
    /\ run.log[Len(run.log)].event_type = "final"

\* the stages of the pipeline a finished run went through
StagesExecuted ==
    {"Resolve"}
    \cup (IF run.decision # None THEN {"Authorize"} ELSE {})
    \cup (IF run.retrievals # <<>> THEN {"Retrieve"} ELSE {})
    \cup (IF Authorized /\ TestMode(run.env) THEN {"DebugShortCircuit"} ELSE {})
    \cup (IF run.llm_calls # <<>> THEN {"Generate"} ELSE {})
    \cup (IF Len(run.retrievals) = 2 THEN {"Research"} ELSE {})
    \cup (IF run.exports # <<>> THEN {"Postprocess"} ELSE {})
    \cup (IF Result.kind = "response" THEN {"Finalize"} ELSE {})

\* the stage an event of the log names
StageOfEvent(event) ==
    CASE event.event_type \in {"query", "query_error"} -> "Resolve"
      [] event.event_type = "access_denied" -> "Authorize"
      [] event.event_type = "search" -> "Retrieve"
      [] event.event_type = "research_search" -> "Research"
      [] event.event_type \in {"llm", "llm_error"} -> "Generate"
      [] event.event_type = "final" -> "Finalize"

\* C26: each pipeline stage that a run executes emits exactly one event
\* carrying the stage name, so that the sequence of stages the run took can
\* be reconstructed from the event log alone.
C26_OneEventPerStage ==
    Done =>
        \A stage \in StagesExecuted :
            Cardinality({i \in 1..Len(run.log) : StageOfEvent(run.log[i]) = stage}) = 1

\* the place of an event in the order query, search, llm (attempt 1),
\* research_search, llm (attempt 2), final; 0 for the error events
Rank(event) ==
    CASE event.event_type = "query" -> 1
      [] event.event_type = "search" -> 2
      [] event.event_type = "llm" ->
             IF "attempt" \in DOMAIN event.payload /\ event.payload.attempt = 2
             THEN 5 ELSE 3
      [] event.event_type = "research_search" -> 4
      [] event.event_type = "final" -> 6
      [] OTHER -> 0

\* C28: in every run the logged event types appear in the order query,
\* search, llm (attempt 1), research_search, llm (attempt 2), final, with
\* stages possibly skipped but never reordered or repeated; no search or llm
\* event is logged before Resolve and Authorize have passed.
C28_EventOrder ==
    /\ \A i, j \in 1..Len(run.log) :
           (i < j /\ Rank(run.log[i]) # 0 /\ Rank(run.log[j]) # 0) =>
               Rank(run.log[i]) < Rank(run.log[j])
    /\ (EventsOfType("search") \cup EventsOfType("llm") # {}) =>
           /\ Resolved /\ TaskCfg.task_type = run.task_type
           /\ Authorized

\* a run logged all six events
C28_Witness ==
    EventTypes = <<"query", "search", "llm", "research_search", "llm", "final">>

\* the events of a type whose payload counts as many fragments as the
\* retrieval returned
EventsCounting(event_type, retrieval) ==
    {i \in EventsOfType(event_type) :
        run.log[i].payload.chunks_found = retrieval.returned}

\* C29: every run that performs retrieval logs exactly one search event whose
\* chunks_found equals the number of fragments the retrieval returned, zero
\* included; every research re-retrieval logs exactly one research_search
\* event; corporate runs perform no retrieval and log no search event.
C29_SearchEvents ==
    /\ run.retrievals # <<>> =>
           /\ Cardinality(EventsOfType("search")) = 1
           /\ EventsCounting("search", run.retrievals[1]) = EventsOfType("search")
    /\ Len(run.retrievals) = 2 =>
           /\ Cardinality(EventsOfType("research_search")) = 1
           /\ EventsCounting("research_search", run.retrievals[2])
                  = EventsOfType("research_search")
    /\ (Resolved /\ TaskCfg.task_type = "corporate") =>
           /\ run.retrievals = <<>>
           /\ EventsOfType("search") \cup EventsOfType("research_search") = {}

\* C29 for the retrievals that return: the run logged one event for each,
\* with the number of fragments returned
SearchEventsOfReturnedRetrievals ==
    /\ (run.retrievals # <<>> /\ run.retrievals[1].ok) =>
           /\ Cardinality(EventsOfType("search")) = 1
           /\ EventsCounting("search", run.retrievals[1]) = EventsOfType("search")
    /\ (Len(run.retrievals) = 2 /\ run.retrievals[2].ok) =>
           /\ Cardinality(EventsOfType("research_search")) = 1
           /\ EventsCounting("research_search", run.retrievals[2])
                  = EventsOfType("research_search")
    /\ (Resolved /\ TaskCfg.task_type = "corporate") =>
           /\ run.retrievals = <<>>
           /\ EventsOfType("search") \cup EventsOfType("research_search") = {}

\* the last event the run logged
LastEvent == run.log[Len(run.log)]

\* C32: the final event of every successful run reports ok=true and an
\* answer_length equal to the length of the answer string returned to the
\* caller in that run.
C32_FinalEventAnswerLength ==
    SuccessfulRun =>
        /\ LastEvent.event_type = "final"
        /\ LastEvent.payload.ok
        /\ LastEvent.payload.answer_length = Len(Result.answer[1])

\* C32 for the runs that called the generation backend
FinalEventAnswerLengthAfterLLM ==
    (SuccessfulRun /\ run.llm_calls # <<>>) =>
        /\ LastEvent.event_type = "final"
        /\ LastEvent.payload.ok
        /\ LastEvent.payload.answer_length = Len(Result.answer[1])

\* the second generation-backend call of the run was made, after a first
\* one that succeeded, and did not succeed
SecondLLMCallFailed == Done /\ run.llm_calls = <<1, 2>> /\ Len(run.answers) = 1

\* C33: if research escalation is enabled and the second backend call fails
\* after the first one succeeded, the run returns ok=false with the backend's
\* error, the first attempt's answer is not returned to the caller, the
\* exporter is not invoked, and an llm_error event followed by a final event
\* is logged.
C33_SecondFailureIsResult ==
    SecondLLMCallFailed =>
        /\ Result.kind = "response"
        /\ ~Result.ok
        /\ Result.error # None
        /\ Result.answer = None
        /\ run.exports = <<>>
        /\ Len(run.log) >= 2
        /\ run.log[Len(run.log) - 1].event_type = "llm_error"
        /\ LastEvent.event_type = "final"

\* C33 for a second call that fails with a status other than 200
SecondLLMErrorIsResult ==
    (SecondLLMCallFailed /\ Result.kind # "uncaught") =>
        /\ Result.kind = "response"
        /\ ~Result.ok
        /\ Result.error # None
        /\ Result.answer = None
        /\ run.exports = <<>>
        /\ Len(run.log) >= 2
        /\ run.log[Len(run.log) - 1].event_type = "llm_error"
        /\ LastEvent.event_type = "final"

-----------------------------------------------------------------------------
(* Task registry: keys and ids                                             *)

\* no two summaries of a listing have the same id
ListHasDistinctIds ==
    probe.op = "list_registered_tasks" =>
        \A i, j \in 1..Len(probe.out) :
            i # j => probe.out[i].task_id # probe.out[j].task_id

\* C35: every entry of the registry cache is stored under a key equal to the
\* id of the definition it holds, so get(taskId) always returns a definition
\* whose id is taskId and listAll never returns two summaries with the same
\* id.
C35_KeysAreIds ==
    /\ \A k \in DOMAIN tasks : tasks[k].task_id = k
    /\ (probe.op = "get_task_config" /\ probe.out.ok) =>
           probe.out.cfg.task_id = probe.args[1]
    /\ ListHasDistinctIds

====
